---- MODULE Spec2Model ----
(***************************************************************************)
(* Chemical Equipment Visualizer backend: CSV upload validation            *)
(* (DatasetUploadSerializer.validate_file) and the dataset store with its  *)
(* per-user retention policy (DatasetViewSet).                             *)
(*                                                                         *)
(* Strings that the code takes apart (column names) are sequences of       *)
(* tokens, so that str.strip() and str.replace(' ', '_') are computed.     *)
(***************************************************************************)
EXTENDS Integers, Sequences, FiniteSets, TLC

(***************************************************************************)
(* Bounds of the model.                                                    *)
(***************************************************************************)
\* largest number of data rows of an enumerated CSV
MaxRows == 3

(***************************************************************************)
(* Column names.                                                           *)
(***************************************************************************)
SP == " "
US == "_"

\* str.strip(): drop leading and trailing blanks
RECURSIVE lstrip(_)
lstrip(s) == IF s # <<>> /\ Head(s) = SP THEN lstrip(Tail(s)) ELSE s

RECURSIVE rstrip(_)
rstrip(s) ==
    IF s # <<>> /\ s[Len(s)] = SP THEN rstrip(SubSeq(s, 1, Len(s) - 1)) ELSE s

strip(s) == rstrip(lstrip(s))

\* str.replace(' ', '_')
replace_space(s) == [i \in DOMAIN s |-> IF s[i] = SP THEN US ELSE s[i]]

Equipment_Name == <<"Equipment", US, "Name">>
Equipment_Name_Alt == <<"Equipment", SP, "Name">>
Type == <<"Type">>
Flowrate == <<"Flowrate">>
Pressure == <<"Pressure">>
Temperature == <<"Temperature">>

REQUIRED_COLUMNS == <<Equipment_Name, Type, Flowrate, Pressure, Temperature>>
REQUIRED_COLUMNS_ALT == <<Equipment_Name_Alt, Type, Flowrate, Pressure, Temperature>>
numeric_columns == <<Flowrate, Pressure, Temperature>>

Range(s) == {s[i] : i \in DOMAIN s}

(***************************************************************************)
(* Uploaded files and data frames.                                         *)
(*   file   = [csv_ext, size, header, rows, cols]                          *)
(*   header = the raw column names of the first line                       *)
(*   cols   = one sequence of cells (of length rows) per header column     *)
(*   cell   = [kind |-> "num" | "str" | "nan", num |-> value]              *)
(***************************************************************************)
MAX_FILE_SIZE == 5 * 1024 * 1024

NaN == [kind |-> "nan", num |-> 0]
Num(v) == [kind |-> "num", num |-> v]
Str == [kind |-> "str", num |-> 0]

isna(c) == c.kind = "nan"

\* pd.read_csv followed by df.columns.str.strip()
read_csv(file) ==
    [columns |-> [i \in DOMAIN file.header |-> strip(file.header[i])],
     data |-> file.cols,
     len |-> file.rows]

\* 'col in df.columns'
has_column(df, col) == \E i \in DOMAIN df.columns : df.columns[i] = col

\* df[col]; only evaluated when the column exists (KeyError otherwise)
column(df, col) ==
    df.data[CHOOSE i \in DOMAIN df.columns :
                df.columns[i] = col
                /\ \A j \in DOMAIN df.columns : df.columns[j] = col => i <= j]

\* df[col].isna().sum()
isna_sum(cells) == Cardinality({i \in DOMAIN cells : isna(cells[i])})

\* pd.to_numeric(series, errors='raise') raises on a non-numeric string
to_numeric_raises(cells) == \E i \in DOMAIN cells : cells[i].kind = "str"

(***************************************************************************)
(* Validation errors.  wrapped: the error was raised inside the try block  *)
(* and re-raised by 'except Exception' as "Error processing CSV file: ..." *)
(***************************************************************************)
Err(kind, missing, col) ==
    [kind |-> kind, missing |-> missing, column |-> col, wrapped |-> FALSE]
Wrapped(e) == [e EXCEPT !.wrapped = TRUE]
NoErr == Err("none", {}, <<>>)

Valid == [ok |-> TRUE, error |-> NoErr]
Invalid(e) == [ok |-> FALSE, error |-> e]

\* missing_pct > 50 with missing_pct = isna().sum() / len(df) * 100
too_many_missing(cells, len) == isna_sum(cells) * 100 > 50 * len

\* the index of the first column of 'cols' (in order) that is in 'bad',
\* 0 if none: the iteration at which a loop over 'cols' raises
FirstIndex(cols, bad) ==
    IF \E i \in DOMAIN cols : cols[i] \in bad
    THEN CHOOSE i \in DOMAIN cols :
             cols[i] \in bad /\ \A j \in DOMAIN cols : cols[j] \in bad => i <= j
    ELSE 0

\* the loop over REQUIRED_COLUMNS, lines 171-177
check_missing_values(df) ==
    LET bad == {col \in Range(REQUIRED_COLUMNS) :
                    ~has_column(df, col)
                    \/ too_many_missing(column(df, col), df.len)}
        i == FirstIndex(REQUIRED_COLUMNS, bad)
    IN  IF i = 0 THEN Valid
        ELSE IF ~has_column(df, REQUIRED_COLUMNS[i])
        THEN Invalid(Wrapped(Err("KeyError", {}, REQUIRED_COLUMNS[i])))
        ELSE Invalid(Wrapped(Err("too_many_missing", {}, REQUIRED_COLUMNS[i])))

\* the loop over numeric_columns, lines 160-168
check_numeric(df) ==
    LET bad == {col \in Range(numeric_columns) :
                    ~has_column(df, col) \/ to_numeric_raises(column(df, col))}
        i == FirstIndex(numeric_columns, bad)
    IN  IF i = 0 THEN check_missing_values(df)
        ELSE IF ~has_column(df, numeric_columns[i])
        THEN Invalid(Wrapped(Err("KeyError", {}, numeric_columns[i])))
        ELSE Invalid(Wrapped(Err("non_numeric", {}, numeric_columns[i])))

\* a validator that compares the raw names, without normalizing them
missing_columns_raw(df) == Range(REQUIRED_COLUMNS) \ Range(df.columns)

\* set(self.REQUIRED_COLUMNS) - set(normalized_columns), lines 148-152
missing_columns(df) ==
    Range(REQUIRED_COLUMNS) \ {replace_space(c) : c \in Range(df.columns)}

\* lines 145-158
check_columns(df) ==
    IF missing_columns(df) # {}
    THEN Invalid(Wrapped(Err("missing_columns", missing_columns(df), <<>>)))
    ELSE check_numeric(df)

\* a validate_file without the check of df.empty
validate_file_unguarded(file) ==
    IF ~file.csv_ext THEN Invalid(Err("format", {}, <<>>))
    ELSE IF file.size > MAX_FILE_SIZE THEN Invalid(Err("size", {}, <<>>))
    ELSE IF file.header = <<>> THEN Invalid(Err("EmptyDataError", {}, <<>>))
    ELSE check_columns(read_csv(file))

validate_file(file) ==
    IF ~file.csv_ext THEN Invalid(Err("format", {}, <<>>))
    ELSE IF file.size > MAX_FILE_SIZE THEN Invalid(Err("size", {}, <<>>))
    ELSE IF file.header = <<>> THEN Invalid(Err("EmptyDataError", {}, <<>>))
    ELSE IF read_csv(file).len = 0 THEN Invalid(Wrapped(Err("empty", {}, <<>>)))
    ELSE check_columns(read_csv(file))


(***************************************************************************)
(* The CSV files enumerated as inputs.                                     *)
(***************************************************************************)
\* a column of n cells of which the first k are missing; a numeric column
\* holds numbers, and one non-numeric string when 'bad'
MkCol(n, k, numeric, bad) ==
    [i \in 1..n |->
        IF i <= k THEN NaN
        ELSE IF ~numeric THEN Str
        ELSE IF bad /\ i = n THEN Str
        ELSE Num(10 * i)]

Pad(col, pad) == IF pad THEN <<SP>> \o col \o <<SP>> ELSE col

\* nv: how the name column is spelled ("us", "sp") or "none" when absent;
\* present: which of the other four required columns the header has
MkHeader(nv, present, pad) ==
    (IF nv = "us" THEN <<Equipment_Name>>
     ELSE IF nv = "sp" THEN <<Pad(Equipment_Name_Alt, pad)>>
     ELSE <<>>)
    \o SelectSeq(<<Pad(Type, pad), Flowrate, Pad(Pressure, pad), Temperature>>,
                 LAMBDA c : strip(c) \in present)

\* the index in REQUIRED_COLUMNS of a raw header name
ReqIndex(raw) ==
    CHOOSE i \in DOMAIN REQUIRED_COLUMNS :
        REQUIRED_COLUMNS[i] = replace_space(strip(raw))

MkFile(ext, size, header, n, k, bad) ==
    [csv_ext |-> ext, size |-> size, header |-> header, rows |-> n,
     cols |-> [i \in DOMAIN header |->
                 MkCol(n, k[ReqIndex(header[i])], ReqIndex(header[i]) >= 3,
                       bad = ReqIndex(header[i]))]]

\* the missing-value counts tried for a column of n rows: none, half, just
\* over half, all
MissingCounts(n) == {0, n \div 2, (n \div 2) + 1, n} \cap (0..n)

Headers ==
    {MkHeader(nv, present, FALSE) :
        nv \in {"us", "sp", "none"},
        present \in SUBSET {Type, Flowrate, Pressure, Temperature}}
    \cup {MkHeader(nv, {Type, Flowrate, Pressure, Temperature}, TRUE) :
            nv \in {"us", "sp"}}

Sizes == {1024, MAX_FILE_SIZE, MAX_FILE_SIZE + 1}

\* files with a .csv name of 1 KiB: every header, row count, pattern of
\* missing values and place of a non-numeric value
IsContentInput(f) ==
    \E h \in Headers, n \in 0..MaxRows, bad \in {0, 3, 4, 5} :
        \E k \in [1..5 -> MissingCounts(n)] :
            f = MkFile(TRUE, 1024, h, n, k, bad)

\* files of every name and size, with clean content
IsEnvelopeInput(f) ==
    \E ext \in BOOLEAN, size \in Sizes, h \in Headers, n \in 0..1 :
        f = MkFile(ext, size, h, n, [i \in 1..5 |-> 0], 0)


(***************************************************************************)
(* Floating-point numbers.  A float is a multiple of 2^-FracBits held as   *)
(* its integer numerator, and every operation rounds its exact result to   *)
(* MantBits significant bits, ties to even, as IEEE 754 arithmetic does    *)
(* with 53.  The values used stay above 2^MantBits units, or are whole     *)
(* units, so that the unit itself never rounds.                            *)
(***************************************************************************)
\* significant bits of a float
MantBits == 14
\* largest number of records of an enumerated data frame
MaxRecords == 3

FracBits == MantBits + 4
Unit == 2 ^ FracBits

\* a / b rounded to the nearest integer, ties to even
round_half_even(a, b) ==
    LET q == a \div b
        r == a % b
    IN  IF 2 * r < b THEN q
        ELSE IF 2 * r > b THEN q + 1
        ELSE q + (q % 2)

\* the spacing of the floats around num / den
RECURSIVE ulp(_, _, _)
ulp(num, den, k) ==
    IF num < den * (2 ^ MantBits) * k THEN k ELSE ulp(num, den, 2 * k)

\* the float nearest to num / den
fl(num, den) ==
    LET k == ulp(num, den, 1) IN round_half_even(num, den * k) * k

\* x + y, x / n and x * n on floats
fadd(x, y) == fl(x + y, 1)
fdiv(x, n) == fl(x, n)
fmul(x, n) == fl(x * n, 1)

\* None, beside the cells NaN and Num(v)
None == [kind |-> "none", num |-> 0]

(***************************************************************************)
(* Data frames of the parser and the aggregator.                           *)
(*   frame = [columns |-> set of column names,                             *)
(*            rows    |-> sequence of [column -> cell]]                    *)
(* A cell of Type is a string, NoType when missing; a cell of a numeric    *)
(* column is Num(v), Str or NaN.                                           *)
(***************************************************************************)
NoType == "NaN"
Unknown == "Unknown"

series(df, col) == [i \in DOMAIN df.rows |-> df.rows[i][col]]

\* pd.to_numeric(series, errors='coerce')
to_numeric_coerce(cells) ==
    [i \in DOMAIN cells |-> IF cells[i].kind = "num" THEN cells[i] ELSE NaN]

\* the sum of the known values, added in row order
RECURSIVE nansum(_)
nansum(cells) ==
    IF cells = <<>> THEN 0
    ELSE LET rest == nansum(SubSeq(cells, 1, Len(cells) - 1))
             last == cells[Len(cells)]
         IN  IF isna(last) THEN rest ELSE fadd(rest, last.num)

\* Series.mean(): the mean of the known values, NaN when there is none
mean(cells) ==
    LET count == Len(cells) - isna_sum(cells)
    IN  IF count = 0 THEN NaN ELSE Num(fdiv(nansum(cells), count))

\* Series.fillna(value); df[col].fillna(value, inplace=True) fills the column
\* of df itself, as pandas does without copy-on-write
fillna(cells, value) ==
    [i \in DOMAIN cells |-> IF isna(cells[i]) THEN value ELSE cells[i]]

\* a fillna that leaves the series as it is
fillna_skipped(cells, value) == cells

\* Series.fillna('Unknown') on a text column
fillna_text(cells, value) ==
    [i \in DOMAIN cells |-> IF cells[i] = NoType THEN value ELSE cells[i]]

\* parse_csv_file after read_csv and the stripping of the column names:
\* the numeric columns are coerced and filled with their mean, Type is
\* filled with 'Unknown'
string_cols == {Equipment_Name, Type}

parse_column(df, col) ==
    IF col \in string_cols THEN fillna_text(series(df, col), Unknown)
    ELSE LET coerced == to_numeric_coerce(series(df, col))
         IN  fillna(coerced, mean(coerced))

parse_csv_file(df) ==
    [columns |-> df.columns,
     rows |-> [i \in DOMAIN df.rows |->
                 [col \in df.columns |-> parse_column(df, col)[i]]]]

\* Series.value_counts().to_dict(): the values other than NaN with their
\* counts, largest count first, equal counts in order of first appearance
count_of(cells, v) == Cardinality({i \in DOMAIN cells : cells[i] = v})

first_index(cells, v) == CHOOSE i \in DOMAIN cells :
    cells[i] = v /\ \A j \in DOMAIN cells : cells[j] = v => i <= j

RECURSIVE by_count_descending(_, _)
by_count_descending(cells, values) ==
    IF values = {} THEN <<>>
    ELSE LET top == CHOOSE v \in values : \A w \in values :
                        \/ count_of(cells, v) > count_of(cells, w)
                        \/ /\ count_of(cells, v) = count_of(cells, w)
                           /\ first_index(cells, v) <= first_index(cells, w)
         IN  <<<<top, count_of(cells, top)>>>>
                 \o by_count_descending(cells, values \ {top})

value_counts(cells) ==
    by_count_descending(cells, Range(cells) \ {NoType})

\* float(df[col].mean()) if col in df.columns else None
average(df, col) ==
    IF col \in df.columns THEN mean(series(df, col)) ELSE None

calculate_statistics(df) ==
    [total_equipment |-> Len(df.rows),
     avg_flowrate |-> average(df, Flowrate),
     avg_pressure |-> average(df, Pressure),
     avg_temperature |-> average(df, Temperature),
     equipment_distribution |->
         IF Type \in df.columns THEN value_counts(series(df, Type)) ELSE <<>>]

\* None in a text column of the records
NoneText == "None"

\* df.replace({np.nan: None}).to_dict('records'): one record per row, in
\* row order, None where the frame has NaN
to_dict_cell(col, c) ==
    IF col \in string_cols THEN (IF c = NoType THEN NoneText ELSE c)
    ELSE IF isna(c) THEN None ELSE c

dataframe_to_json(df) ==
    [i \in DOMAIN df.rows |->
        [col \in df.columns |-> to_dict_cell(col, df.rows[i][col])]]

\* Dataset.get_data_preview(limit=10): data_json[:limit]
PreviewLimit == 10
get_data_preview(json, limit) ==
    SubSeq(json, 1, IF Len(json) < limit THEN Len(json) ELSE limit)

\* Dataset.record_count: len(self.data_json)
record_count(json) == Len(json)

(***************************************************************************)
(* The report and the statistics summary of a stored dataset.              *)
(* equipment_distribution is a sequence of <<type, count>>, in the order   *)
(* of the keys of the dict.                                                *)
(***************************************************************************)
\* bool(x) of a stored average: None and 0.0 are false
truthy(x) == x # None /\ x # Num(0)

\* f"{x:.2f}" and f"{x:.1f}": the decimal nearest to the float
NotAvailable == [text |-> "N/A", digits |-> 0]
Fixed(places, digits) == [text |-> places, digits |-> digits]
format_2f(x) == Fixed(".2f", round_half_even(x.num * 100, Unit))
format_1f(x) == Fixed(".1f", round_half_even(x * 10, Unit))

\* f"{dataset.avg_flowrate:.2f}" if dataset.avg_flowrate else 'N/A'
average_cell(x) == IF truthy(x) THEN format_2f(x) ELSE NotAvailable

\* round(self.avg_flowrate, 2) if self.avg_flowrate else None
Rounded(hundredths) == [kind |-> "round2", num |-> hundredths]
average_summary(x) ==
    IF truthy(x) THEN Rounded(round_half_even(x.num * 100, Unit)) ELSE None

get_statistics_summary(dataset) ==
    [total_equipment |-> dataset.total_equipment,
     avg_flowrate |-> average_summary(dataset.avg_flowrate),
     avg_pressure |-> average_summary(dataset.avg_pressure),
     avg_temperature |-> average_summary(dataset.avg_temperature)]

\* sum(dataset.equipment_distribution.values())
RECURSIVE total_count(_)
total_count(items) ==
    IF items = <<>> THEN 0 ELSE items[1][2] + total_count(Tail(items))

\* the items in the order of the dict
unsorted(items) == items

\* sorted(items, key=lambda x: x[1], reverse=True): largest count first,
\* equal counts in the order of the dict
RECURSIVE sorted_by_count(_)
sorted_by_count(items) ==
    IF items = <<>> THEN <<>>
    ELSE LET top == CHOOSE i \in DOMAIN items :
                        /\ \A j \in DOMAIN items : items[j][2] <= items[i][2]
                        /\ \A j \in 1..(i - 1) : items[j][2] < items[i][2]
         IN  <<items[top]>> \o
             sorted_by_count(SubSeq(items, 1, top - 1) \o
                             SubSeq(items, top + 1, Len(items)))

\* (count / total * 100) if total > 0 else 0, as f"{percentage:.1f}%"
percentage(count, total) ==
    IF total > 0 THEN format_1f(fmul(fdiv(count * Unit, total), 100))
    ELSE format_1f(0)

distribution_rows(items) ==
    LET rows == sorted_by_count(items)
    IN  [i \in DOMAIN rows |->
            [type |-> rows[i][1], count |-> rows[i][2],
             percentage |-> percentage(rows[i][2], total_count(items))]]

\* a report that shows the distribution of every dataset
always_distribution(items) == TRUE

\* if dataset.equipment_distribution:
has_distribution(items) == items # <<>>

NoChart == [labels |-> <<>>, values |-> <<>>, valueMax |-> 0]

max_value(values) ==
    CHOOSE v \in Range(values) : \A w \in Range(values) : w <= v

\* create_bar_chart(data_dict): the first 10 keys with their counts, and
\* valueMax = max(values) * 1.2 if values else 10
create_bar_chart(items) ==
    LET shown == SubSeq(items, 1, IF Len(items) < 10 THEN Len(items) ELSE 10)
        values == [i \in DOMAIN shown |-> shown[i][2]]
    IN  [labels |-> [i \in DOMAIN shown |-> shown[i][1]],
         values |-> values,
         valueMax |-> IF values # <<>>
                      THEN fmul(fl(12 * Unit, 10), max_value(values))
                      ELSE 10 * Unit]

\* generate_pdf_report(dataset): the statistics table, and the distribution
\* table with its bar chart when there is a distribution
generate_pdf_report(dataset) ==
    [built |-> TRUE,
     statistics |-> <<average_cell(dataset.avg_flowrate),
                      average_cell(dataset.avg_pressure),
                      average_cell(dataset.avg_temperature)>>,
     sections |-> {"Summary Statistics"} \cup
                  (IF has_distribution(dataset.equipment_distribution)
                   THEN {"Equipment Type Distribution", "Visual Distribution"}
                   ELSE {}),
     distribution |-> IF has_distribution(dataset.equipment_distribution)
                      THEN distribution_rows(dataset.equipment_distribution)
                      ELSE <<>>,
     chart |-> IF has_distribution(dataset.equipment_distribution)
               THEN create_bar_chart(dataset.equipment_distribution)
               ELSE NoChart]

(***************************************************************************)
(* The dataset store and the requests of DatasetViewSet.                   *)
(***************************************************************************)
Users == {"alice", "bob"}
Slots == {"r1", "r2"}
MAX_DATASETS_PER_USER == 5

\* storage and database failures injected in one behaviour
MaxFaults == 1
\* DELETE requests for a dataset of the caller's in one behaviour
MaxDestroys == 1
\* timestamps handed out in one behaviour of non-overlapping requests
MaxUploads == 6
\* timestamps handed out in one behaviour of overlapping requests, which
\* starts from a store that is already full
MaxNewUploads == 2
\* the same while another client lists and reads
MaxListUploads == 1

VARIABLES
    records,     \* rows of the Dataset table: [id, user, uploaded_at, file]
    files,       \* stored file blobs, keyed by the upload they came from
    clock,       \* timezone.now(): the last timestamp handed out
    next_id,     \* the AutoField sequence of the Dataset table
    req,         \* per request slot: the request being handled
    response,    \* the response sent by the last step, if it sent one
    faults,      \* storage and database failures so far
    destroys,    \* DELETE requests that found their dataset so far
    before,      \* non-overlapping requests: the store when the request began
    upload_file, \* validation alone: the file under validation
    validation,  \* validation alone: the result of validate_file
    deleted,     \* deletes followed up: the ids whose DELETE was answered 204
    frame,       \* parsing alone: the data frame as read from the CSV
    parsed,      \* parsing alone: the data frame parse_csv_file returns
    stats,       \* the statistics fields of one Dataset row
    report,      \* what generate_pdf_report put into the document
    summary,     \* what get_statistics_summary returned
    position,    \* one upload: the read position of the uploaded file
    data_json,   \* one upload: the records dataframe_to_json returned
    window,      \* desktop client: the fields and widgets of MainWindow
    progress,    \* desktop client: the progress dialog of the upload
    upload_thread, \* desktop client: where the UploadThread is
    emitted,     \* desktop client: upload_complete signals of this upload
    answer       \* desktop client: what get_datasets returned last

pipeline == <<frame, parsed, stats, report, summary, position, data_json>>

client == <<window, progress, upload_thread, emitted, answer>>

vars == <<records, files, clock, next_id, req, response, faults, destroys, before,
          upload_file, validation, deleted, frame, parsed, stats, report, summary,
          position, data_json, window, progress, upload_thread, emitted, answer>>

NoFrame == [columns |-> {}, rows |-> <<>>]

\* MainWindow as setup_ui leaves it: no dataset, an empty selector, the
\* Download PDF and Delete buttons disabled; 0 stands for None
NoWindow == [current_dataset |-> 0, datasets |-> <<>>, dataset_combo |-> <<>>,
             pdf_btn |-> FALSE, delete_btn |-> FALSE]
NoThread == [pc |-> "none", outcome |-> "none", success |-> FALSE,
             dataset |-> 0]
NoAnswer == [success |-> FALSE, datasets |-> <<>>, called |-> FALSE]

ClientUnused ==
    /\ window = NoWindow
    /\ progress = "none"
    /\ upload_thread = NoThread
    /\ emitted = 0
    /\ answer = NoAnswer
NoDataset == [total_equipment |-> -1, avg_flowrate |-> None,
              avg_pressure |-> None, avg_temperature |-> None,
              equipment_distribution |-> <<>>]
NoReport == [built |-> FALSE, statistics |-> <<>>, sections |-> {},
             distribution |-> <<>>, chart |-> NoChart]
NoSummary == [total_equipment |-> -1, avg_flowrate |-> None,
              avg_pressure |-> None, avg_temperature |-> None]

Idle == [pc |-> "idle", op |-> "none", user |-> "none", ts |-> 0, new_id |-> 0,
         pend |-> <<>>, count |-> 0]

NoFile == [csv_ext |-> FALSE, size |-> 0, header |-> <<>>, rows |-> 0,
           cols |-> <<>>]

NotValidated == [ok |-> FALSE, error |-> Err("pending", {}, <<>>)]

\* Response(body, status): dataset is the id in the body of a 201
Response(status, msg, dataset) ==
    [status |-> status, msg |-> msg, dataset |-> dataset]

NoResponse == Response(0, "", 0)
NotFound == Response(404, "Dataset not found", 0)
BadRequest == Response(400, "validation error", 0)
UploadError ==
    Response(500, "An error occurred while processing the file. Please try again.", 0)
InternalServerError == Response(500, "Internal Server Error", 0)
PdfError == Response(500, "Failed to generate PDF report", 0)
Created(id) == Response(201, "Dataset uploaded and processed successfully", id)
Deleted == Response(204, "Dataset deleted successfully", 0)
Listed(count, results) ==
    [status |-> 200, msg |-> "list", dataset |-> 0, count |-> count,
     results |-> results]

(***************************************************************************)
(* Queries on the Dataset table.                                           *)
(***************************************************************************)
\* the same query without the filter on the user
filter_any(u) == records

\* Dataset.objects.filter(user=u)
filter_user(u) == {r \in records : r.user = u}

\* order_by('-uploaded_at')
RECURSIVE order_newest_first(_)
order_newest_first(S) ==
    IF S = {} THEN <<>>
    ELSE LET newest == CHOOSE r \in S :
                           \A q \in S : q.uploaded_at <= r.uploaded_at
         IN  <<newest>> \o order_newest_first(S \ {newest})

\* a slice that keeps one dataset too many
slice_after_limit(l) == SubSeq(l, MAX_DATASETS_PER_USER + 2, Len(l))

\* a slice that takes the one dataset past the cap, as if there were never
\* more than one too many
slice_one_past_limit(l) ==
    SubSeq(l, MAX_DATASETS_PER_USER + 1,
           IF Len(l) > MAX_DATASETS_PER_USER THEN MAX_DATASETS_PER_USER + 1
           ELSE Len(l))

\* user_datasets[settings.MAX_DATASETS_PER_USER:]
slice_from_limit(l) == SubSeq(l, MAX_DATASETS_PER_USER + 1, Len(l))

\* datasets_to_delete, evaluated when the for loop starts
datasets_to_delete(u) == slice_from_limit(order_newest_first(filter_user(u)))

\* queryset[:5]
slice_to_limit(l) ==
    SubSeq(l, 1, IF Len(l) < 5 THEN Len(l) ELSE 5)

\* Dataset.objects.filter(user=request.user).order_by('-uploaded_at')[:5]
list_queryset(u) == slice_to_limit(order_newest_first(filter_user(u)))

\* a lookup by primary key alone
get_by_pk(pk, u) == {r \in records : r.id = pk}

\* Dataset.objects.get(pk=pk, user=request.user): the row, or none
\* (Dataset.DoesNotExist)
get(pk, u) == {r \in records : r.id = pk /\ r.user = u}

\* old_dataset.file.delete(): FieldFile.delete removes the blob, clears the
\* field and saves the instance; Model.save updates the row and, when no
\* row has the primary key any more, inserts it
file_delete_records(row) ==
    IF row.file
    THEN {r \in records : r.id # row.id} \cup {[row EXCEPT !.file = FALSE]}
    ELSE records

file_delete_files(row) ==
    IF row.file THEN files \ {row.uploaded_at} ELSE files

\* a DELETE that matches the whole row as the request read it
delete_snapshot(row) == records \ {row}

\* old_dataset.delete(): DELETE ... WHERE id = pk
delete_record(row) == {r \in records : r.id # row.id}

(***************************************************************************)
(* The files uploaded to the store: a valid one, the same with the name    *)
(* column spelled with a space, and one per way of failing validation.     *)
(***************************************************************************)
AllColumns == {Type, Flowrate, Pressure, Temperature}
NoneMissing == [i \in 1..5 |-> 0]

GoodCsv == MkFile(TRUE, 1024, MkHeader("us", AllColumns, FALSE), 2, NoneMissing, 0)
SpaceCsv == MkFile(TRUE, 1024, MkHeader("sp", AllColumns, FALSE), 2, NoneMissing, 0)
TxtFile == [GoodCsv EXCEPT !.csv_ext = FALSE]
HugeCsv == [GoodCsv EXCEPT !.size = MAX_FILE_SIZE + 1]
EmptyFile == MkFile(TRUE, 1024, <<>>, 0, NoneMissing, 0)
HeaderOnlyCsv == MkFile(TRUE, 1024, MkHeader("us", AllColumns, FALSE), 0, NoneMissing, 0)
NoTypeCsv ==
    MkFile(TRUE, 1024, MkHeader("us", AllColumns \ {Type}, FALSE), 2, NoneMissing, 0)
TextInNumbersCsv ==
    MkFile(TRUE, 1024, MkHeader("us", AllColumns, FALSE), 2, NoneMissing, 4)
SparseCsv ==
    MkFile(TRUE, 1024, MkHeader("us", AllColumns, FALSE), 2,
           [i \in 1..5 |-> IF i = 3 THEN 2 ELSE 0], 0)

UploadFiles ==
    {GoodCsv, SpaceCsv, TxtFile, HugeCsv, EmptyFile, HeaderOnlyCsv, NoTypeCsv,
     TextInNumbersCsv, SparseCsv}

\* serializer.is_valid() on each of them
ValidFiles == {f \in UploadFiles : validate_file(f).ok}
InvalidFiles == {f \in UploadFiles : ~validate_file(f).ok}

(***************************************************************************)
(* Steps of a request.                                                     *)
(***************************************************************************)
Silent == response' = NoResponse

Finish(s, r) == response' = r /\ req' = [req EXCEPT ![s] = Idle]

Goto(s, pc) == Silent /\ req' = [req EXCEPT ![s].pc = pc]

NoFault == UNCHANGED <<faults, upload_file, validation, pipeline, client>>

Fault ==
    /\ faults < MaxFaults
    /\ faults' = faults + 1
    /\ UNCHANGED <<destroys, upload_file, validation, pipeline, client>>

(***************************************************************************)
(* POST /datasets/upload/  (DatasetViewSet.upload)                         *)
(***************************************************************************)
\* a view that stores the file before it looks at the validation result
RejectUploadAfterStoring(s, u, f) ==
    /\ req[s].pc = "idle"
    /\ f \in InvalidFiles
    /\ response' = BadRequest
    /\ NoFault
    /\ UNCHANGED destroys
    /\ files' = files \cup {clock + 1}
    /\ UNCHANGED <<records, clock, next_id, req>>

\* if not serializer.is_valid(): 400 with the serializer's errors
RejectUpload(s, u, f) ==
    /\ req[s].pc = "idle"
    /\ f \in InvalidFiles
    /\ response' = BadRequest
    /\ NoFault
    /\ UNCHANGED destroys
    /\ UNCHANGED <<records, files, clock, next_id, req>>

\* the file is valid: it is parsed, its statistics are computed and the
\* Dataset instance is built, which takes uploaded_at from timezone.now
AcceptUpload(s, u, f, limit) ==
    /\ req[s].pc = "idle"
    /\ f \in ValidFiles
    /\ clock < limit
    /\ clock' = clock + 1
    /\ req' = [req EXCEPT ![s] = [Idle EXCEPT !.pc = "insert",
                                              !.op = "upload",
                                              !.user = u,
                                              !.ts = clock + 1]]
    /\ Silent
    /\ NoFault
    /\ UNCHANGED destroys
    /\ UNCHANGED <<records, files, next_id>>

\* Dataset.objects.create: the file is stored and the row is inserted
Insert(s) ==
    /\ req[s].pc = "insert"
    /\ records' = records \cup {[id |-> next_id, user |-> req[s].user,
                                 uploaded_at |-> req[s].ts, file |-> TRUE]}
    /\ files' = files \cup {req[s].ts}
    /\ next_id' = next_id + 1
    /\ req' = [req EXCEPT ![s].pc = "count", ![s].new_id = next_id]
    /\ Silent
    /\ NoFault
    /\ UNCHANGED destroys
    /\ UNCHANGED clock

\* the storage refuses the file: nothing is written
InsertFailsInStorage(s) ==
    /\ req[s].pc = "insert"
    /\ Fault
    /\ Finish(s, UploadError)
    /\ UNCHANGED <<records, files, clock, next_id>>

\* the INSERT fails after the field's pre_save has stored the file
InsertFailsInDatabase(s) ==
    /\ req[s].pc = "insert"
    /\ Fault
    /\ files' = files \cup {req[s].ts}
    /\ Finish(s, UploadError)
    /\ UNCHANGED <<records, clock, next_id>>

\* user_datasets.count() > settings.MAX_DATASETS_PER_USER
Count(s) ==
    /\ req[s].pc = "count"
    /\ IF Cardinality(filter_user(req[s].user)) > MAX_DATASETS_PER_USER
       THEN Goto(s, "list")
       ELSE Finish(s, Created(req[s].new_id))
    /\ NoFault
    /\ UNCHANGED destroys
    /\ UNCHANGED <<records, files, clock, next_id>>

\* an upload that answers before it evicts and leaves the rows beyond the cap
\* to a later request
ListLater(s) ==
    /\ req[s].pc = "list"
    /\ Finish(s, Created(req[s].new_id))
    /\ NoFault
    /\ UNCHANGED destroys
    /\ UNCHANGED <<records, files, clock, next_id>>

\* the for loop evaluates the sliced query
List(s) ==
    /\ req[s].pc = "list"
    /\ IF datasets_to_delete(req[s].user) = <<>>
       THEN Finish(s, Created(req[s].new_id))
       ELSE /\ req' = [req EXCEPT ![s].pc = "evict_file",
                                  ![s].pend = datasets_to_delete(req[s].user)]
            /\ Silent
    /\ NoFault
    /\ UNCHANGED destroys
    /\ UNCHANGED <<records, files, clock, next_id>>

\* old_dataset.file.delete()
EvictFile(s) ==
    /\ req[s].pc = "evict_file"
    /\ records' = file_delete_records(Head(req[s].pend))
    /\ files' = file_delete_files(Head(req[s].pend))
    /\ Goto(s, "evict_record")
    /\ NoFault
    /\ UNCHANGED destroys
    /\ UNCHANGED <<clock, next_id>>

\* the storage fails to delete the file: except Exception answers 500
EvictFileFails(s) ==
    /\ req[s].pc = "evict_file"
    /\ Fault
    /\ Finish(s, UploadError)
    /\ UNCHANGED <<records, files, clock, next_id>>

\* old_dataset.delete(), then the next dataset or the 201 response
EvictRecord(s) ==
    /\ req[s].pc = "evict_record"
    /\ records' = delete_record(Head(req[s].pend))
    /\ IF Tail(req[s].pend) = <<>>
       THEN Finish(s, Created(req[s].new_id))
       ELSE /\ req' = [req EXCEPT ![s].pc = "evict_file",
                                  ![s].pend = Tail(req[s].pend)]
            /\ Silent
    /\ NoFault
    /\ UNCHANGED destroys
    /\ UNCHANGED <<files, clock, next_id>>

\* the DELETE fails: except Exception answers 500
EvictRecordFails(s) ==
    /\ req[s].pc = "evict_record"
    /\ Fault
    /\ Finish(s, UploadError)
    /\ UNCHANGED <<records, files, clock, next_id>>

(***************************************************************************)
(* DELETE /datasets/{id}/  (DatasetViewSet.destroy)                        *)
(***************************************************************************)
\* Dataset.objects.get(pk=pk, user=request.user): 404 when there is none
StartDestroy(s, u, pk) ==
    /\ req[s].pc = "idle"
    /\ IF get(pk, u) = {}
       THEN response' = NotFound /\ UNCHANGED <<req, destroys>>
       ELSE /\ destroys < MaxDestroys
            /\ destroys' = destroys + 1
            /\ req' = [req EXCEPT ![s] =
                         [Idle EXCEPT !.pc = "del_file",
                                      !.op = "destroy",
                                      !.user = u,
                                      !.pend = <<CHOOSE r \in get(pk, u) : TRUE>>]]
            /\ Silent
    /\ NoFault
    /\ UNCHANGED <<records, files, clock, next_id>>

\* if dataset.file: dataset.file.delete()
DestroyFile(s) ==
    /\ req[s].pc = "del_file"
    /\ records' = file_delete_records(Head(req[s].pend))
    /\ files' = file_delete_files(Head(req[s].pend))
    /\ Goto(s, "del_record")
    /\ NoFault
    /\ UNCHANGED destroys
    /\ UNCHANGED <<clock, next_id>>

\* an exception in destroy is not caught by the view: the framework
\* answers 500
DestroyFileFails(s) ==
    /\ req[s].pc = "del_file"
    /\ Fault
    /\ Finish(s, InternalServerError)
    /\ UNCHANGED <<records, files, clock, next_id>>

\* dataset.delete() and the 204 response
DestroyRecord(s) ==
    /\ req[s].pc = "del_record"
    /\ records' = delete_record(Head(req[s].pend))
    /\ Finish(s, Deleted)
    /\ NoFault
    /\ UNCHANGED destroys
    /\ UNCHANGED <<files, clock, next_id>>

DestroyRecordFails(s) ==
    /\ req[s].pc = "del_record"
    /\ Fault
    /\ Finish(s, InternalServerError)
    /\ UNCHANGED <<records, files, clock, next_id>>

(***************************************************************************)
(* GET /datasets/{id}/, /statistics/ and /download_pdf/: the response each *)
(* view computes from the table.                                           *)
(***************************************************************************)
retrieve(u, pk) ==
    IF get(pk, u) = {} THEN NotFound ELSE Response(200, "dataset", 0)

statistics(u, pk) ==
    IF get(pk, u) = {} THEN NotFound ELSE Response(200, "statistics", 0)

\* a view that sends a document whether or not one was rendered
download_pdf_unguarded(u, pk, rendered) ==
    IF get(pk, u) = {} THEN NotFound ELSE Response(200, "pdf", 0)

\* rendered: whether generate_pdf_report returned a document or raised
download_pdf(u, pk, rendered) ==
    IF get(pk, u) = {} THEN NotFound
    ELSE IF rendered THEN Response(200, "pdf", 0)
    ELSE PdfError

\* the first step of destroy
destroy_lookup(u, pk) == IF get(pk, u) = {} THEN NotFound ELSE NoResponse

Retrieve(s, u, pk) ==
    /\ req[s].pc = "idle"
    /\ response' = retrieve(u, pk)
    /\ NoFault
    /\ UNCHANGED destroys
    /\ UNCHANGED <<records, files, clock, next_id, req>>

Statistics(s, u, pk) ==
    /\ req[s].pc = "idle"
    /\ response' = statistics(u, pk)
    /\ NoFault
    /\ UNCHANGED destroys
    /\ UNCHANGED <<records, files, clock, next_id, req>>

DownloadPdf(s, u, pk, rendered) ==
    /\ req[s].pc = "idle"
    /\ response' = download_pdf(u, pk, rendered)
    /\ NoFault
    /\ UNCHANGED destroys
    /\ UNCHANGED <<records, files, clock, next_id, req>>

(***************************************************************************)
(* GET /datasets/  (DatasetViewSet.list).  The response is built from two  *)
(* queries: queryset.count() first, then the rows, when serializer.data    *)
(* evaluates the query.                                                    *)
(***************************************************************************)
ListCount(s, u) ==
    /\ req[s].pc = "idle"
    /\ req' = [req EXCEPT ![s] = [Idle EXCEPT !.pc = "list_results",
                                              !.op = "list",
                                              !.user = u,
                                              !.count = Len(list_queryset(u))]]
    /\ Silent
    /\ NoFault
    /\ UNCHANGED destroys
    /\ UNCHANGED <<records, files, clock, next_id>>

ListResults(s) ==
    /\ req[s].pc = "list_results"
    /\ Finish(s, Listed(req[s].count, list_queryset(req[s].user)))
    /\ NoFault
    /\ UNCHANGED destroys
    /\ UNCHANGED <<records, files, clock, next_id>>

(***************************************************************************)
(* PUT and PATCH /datasets/{id}/, which the router gives a ModelViewSet:   *)
(* get_object() filters get_queryset(), a sliced query, which the ORM      *)
(* refuses; the framework answers 404.                                     *)
(***************************************************************************)
Update(s, u, pk) ==
    /\ req[s].pc = "idle"
    /\ response' = NotFound
    /\ NoFault
    /\ UNCHANGED destroys
    /\ UNCHANGED <<records, files, clock, next_id, req>>

(***************************************************************************)
(* The admin site (DatasetAdmin).  The change page saves the fields that   *)
(* are not in readonly_fields: user, name, file, total_equipment and the   *)
(* averages; of these the rows of the model carry user.                    *)
(***************************************************************************)
\* form.save(): UPDATE ... WHERE id = pk
save_user(row, u) ==
    {r \in records : r.id # row.id} \cup {[row EXCEPT !.user = u]}

AdminChange(pk, u) ==
    /\ \E row \in records :
           /\ row.id = pk
           /\ records' = save_user(row, u)
    /\ Silent
    /\ NoFault
    /\ UNCHANGED destroys
    /\ UNCHANGED <<files, clock, next_id, req>>

\* the delete page: obj.delete(), which leaves the stored file
AdminDelete(pk) ==
    /\ \E row \in records :
           /\ row.id = pk
           /\ records' = delete_record(row)
    /\ Silent
    /\ NoFault
    /\ UNCHANGED destroys
    /\ UNCHANGED <<files, clock, next_id, req>>

(***************************************************************************)
(* Specifications.                                                         *)
(***************************************************************************)
\* the primary keys a client may ask for: those handed out so far, whether
\* their dataset is still there or not
Ids == 1..(next_id - 1)

\* a request arrives
StartUpload(s, u, f, limit) ==
    \/ RejectUpload(s, u, f)
    \/ AcceptUpload(s, u, f, limit)

StartUploads(s, limit) ==
    \/ \E u \in Users, f \in UploadFiles : RejectUpload(s, u, f)
    \/ \E u \in Users, f \in UploadFiles : AcceptUpload(s, u, f, limit)

\* a valid upload arrives
StartValidUploads(s, limit) ==
    \E u \in Users, f \in ValidFiles : AcceptUpload(s, u, f, limit)

StartDestroys(s) == \E u \in Users, pk \in Ids : StartDestroy(s, u, pk)

StartReads(s) ==
    \/ \E u \in Users, pk \in Ids : Retrieve(s, u, pk)
    \/ \E u \in Users, pk \in Ids : Statistics(s, u, pk)
    \/ \E u \in Users, pk \in Ids, rendered \in BOOLEAN :
           DownloadPdf(s, u, pk, rendered)

\* a request in progress takes its next step
UploadStep(s) ==
    \/ Insert(s)
    \/ Count(s)
    \/ List(s)
    \/ EvictFile(s)
    \/ EvictRecord(s)

DestroyStep(s) ==
    \/ DestroyFile(s)
    \/ DestroyRecord(s)

\* the storage or the database fails under a request in progress
UploadFault(s) ==
    \/ InsertFailsInStorage(s)
    \/ InsertFailsInDatabase(s)
    \/ EvictFileFails(s)
    \/ EvictRecordFails(s)

DestroyFault(s) ==
    \/ DestroyFileFails(s)
    \/ DestroyRecordFails(s)

\* no request is in progress
Quiet == \A s \in Slots : req[s].pc = "idle"

Store == [records |-> records, files |-> files]

EmptyStore == [records |-> {}, files |-> {}]

ValidationUnused == upload_file = NoFile /\ validation = NotValidated

PipelineUnused ==
    /\ frame = NoFrame
    /\ parsed = NoFrame
    /\ stats = NoDataset
    /\ report = NoReport
    /\ summary = NoSummary
    /\ position = 0
    /\ data_json = <<>>
    /\ ClientUnused

\* the state after the first migration: no dataset
Init ==
    /\ records = {}
    /\ files = {}
    /\ clock = 0
    /\ next_id = 1
    /\ req = [s \in Slots |-> Idle]
    /\ response = NoResponse
    /\ faults = 0
    /\ destroys = 0
    /\ before = EmptyStore
    /\ deleted = {}
    /\ ValidationUnused
    /\ PipelineUnused

\* requests do not overlap: one arrives only when none is in progress;
\* 'before' holds the store as the request found it, while it is in progress
NextSeq ==
    \/ /\ Quiet
       /\ StartUploads("r1", MaxUploads) \/ StartDestroys("r1")
       /\ before' = IF req'["r1"].pc = "idle" THEN EmptyStore ELSE Store
       /\ UNCHANGED deleted
    \/ /\ \/ UploadStep("r1")
          \/ DestroyStep("r1")
          \/ UploadFault("r1")
          \/ DestroyFault("r1")
       /\ before' = IF req'["r1"].pc = "idle" THEN EmptyStore ELSE before
       /\ UNCHANGED deleted

SpecSeq == Init /\ [][NextSeq]_vars

\* a full store, as non-overlapping uploads leave it: bob uploaded once,
\* then alice MAX_DATASETS_PER_USER times
FullRecords ==
    {[id |-> i, user |-> IF i = 1 THEN "bob" ELSE "alice", uploaded_at |-> i,
      file |-> TRUE] : i \in 1..(MAX_DATASETS_PER_USER + 1)}

InitFull ==
    /\ records = FullRecords
    /\ files = 1..(MAX_DATASETS_PER_USER + 1)
    /\ clock = MAX_DATASETS_PER_USER + 1
    /\ next_id = MAX_DATASETS_PER_USER + 2
    /\ req = [s \in Slots |-> Idle]
    /\ response = NoResponse
    /\ faults = 0
    /\ destroys = 0
    /\ before = EmptyStore
    /\ deleted = {}
    /\ ValidationUnused
    /\ PipelineUnused

\* uploads and deletes overlap freely; the storage and the database work
Next ==
    \E s \in Slots :
        /\ \/ StartValidUploads(s, MAX_DATASETS_PER_USER + 1 + MaxNewUploads)
           \/ StartDestroys(s)
           \/ UploadStep(s)
           \/ DestroyStep(s)
        /\ UNCHANGED <<before, deleted>>

Spec == InitFull /\ [][Next]_vars

\* uploads overlap freely and nothing is deleted: a store that starts empty
\* takes MaxRaceUploads uploads
MaxRaceUploads == 7

NextRace ==
    \E s \in Slots :
        /\ \/ StartValidUploads(s, MaxRaceUploads)
           \/ UploadStep(s)
        /\ UNCHANGED <<before, deleted>>

SpecRace == Init /\ [][NextRace]_vars

\* reads and deletes overlap freely
NextRead ==
    \E s \in Slots :
        /\ StartReads(s) \/ StartDestroys(s) \/ DestroyStep(s)
        /\ UNCHANGED <<before, deleted>>

SpecRead == InitFull /\ [][NextRead]_vars

\* one client uploads while another deletes and reads; 'deleted' collects
\* the ids whose DELETE was answered 204
NextDelete ==
    \/ /\ DestroyRecord("r2")
       /\ deleted' = deleted \cup {Head(req["r2"].pend).id}
       /\ UNCHANGED before
    \/ /\ \/ StartValidUploads("r1", MAX_DATASETS_PER_USER + 1 + MaxNewUploads)
          \/ UploadStep("r1")
          \/ StartDestroys("r2")
          \/ DestroyFile("r2")
          \/ StartReads("r2")
       /\ UNCHANGED <<before, deleted>>

SpecDelete == InitFull /\ [][NextDelete]_vars

\* one client uploads and deletes while another lists and reads
NextList ==
    /\ \/ StartValidUploads("r1", MAX_DATASETS_PER_USER + 1 + MaxListUploads)
       \/ UploadStep("r1")
       \/ StartDestroys("r1")
       \/ DestroyStep("r1")
       \/ \E u \in Users : ListCount("r2", u)
       \/ ListResults("r2")
       \/ StartReads("r2")
    /\ UNCHANGED <<before, deleted>>

SpecList == InitFull /\ [][NextList]_vars

\* a client updates and deletes while a staff user works in the admin
NextAdmin ==
    /\ \/ \E u \in Users, pk \in Ids : Update("r1", u, pk)
       \/ StartDestroys("r1")
       \/ DestroyStep("r1")
       \/ \E pk \in Ids, u \in Users : AdminChange(pk, u)
       \/ \E pk \in Ids : AdminDelete(pk)
    /\ UNCHANGED <<before, deleted>>

SpecAdmin == InitFull /\ [][NextAdmin]_vars

(***************************************************************************)
(* Validation alone: one file is drawn and validated.                      *)
(***************************************************************************)
InitValidate ==
    /\ records = {}
    /\ files = {}
    /\ clock = 0
    /\ next_id = 1
    /\ req = [s \in Slots |-> Idle]
    /\ response = NoResponse
    /\ faults = 0
    /\ destroys = 0
    /\ before = EmptyStore
    /\ deleted = {}
    /\ (IsContentInput(upload_file) \/ IsEnvelopeInput(upload_file))
    /\ validation = NotValidated
    /\ PipelineUnused

\* serializer.is_valid() on the drawn file
Validate ==
    /\ validation = NotValidated
    /\ validation' = validate_file(upload_file)
    /\ UNCHANGED <<records, files, clock, next_id, req, response, faults,
                   destroys, before, upload_file, deleted, pipeline, client>>

SpecValidate == InitValidate /\ [][Validate]_vars

(***************************************************************************)
(* Parsing and aggregation alone: one data frame is drawn, parsed by        *)
(* parse_csv_file and aggregated by calculate_statistics, as upload does.   *)
(***************************************************************************)
\* a value with all its significant bits set, and its second neighbour below
AllOnes == (2 ^ MantBits - 1) * 8
AllOnesLess == (2 ^ MantBits - 3) * 8

FlowrateCells == {NaN, Num(0), Num(10 * Unit), Num(AllOnes), Num(AllOnesLess)}
TypeCells == {"Pump", "Valve", NoType}

ColumnSets == {{Type, Flowrate, Pressure, Temperature},
               {Type, Pressure, Temperature},
               {Flowrate, Pressure, Temperature}}

\* Type and Flowrate vary freely; Pressure is known in every row and
\* Temperature in none
Row(cols, type, flowrate) ==
    [col \in cols |-> IF col = Type THEN type
                      ELSE IF col = Flowrate THEN flowrate
                      ELSE IF col = Pressure THEN Num(20 * Unit)
                      ELSE NaN]

Rows(cols) ==
    {Row(cols, type, flowrate) :
        type \in IF Type \in cols THEN TypeCells ELSE {NoType},
        flowrate \in IF Flowrate \in cols THEN FlowrateCells ELSE {NaN}}

IsFrame(f) ==
    \E cols \in ColumnSets, n \in 0..MaxRecords :
        \E rows \in [1..n -> Rows(cols)] :
            f = [columns |-> cols, rows |-> rows]

InitAggregate ==
    /\ records = {}
    /\ files = {}
    /\ clock = 0
    /\ next_id = 1
    /\ req = [s \in Slots |-> Idle]
    /\ response = NoResponse
    /\ faults = 0
    /\ destroys = 0
    /\ before = EmptyStore
    /\ deleted = {}
    /\ ValidationUnused
    /\ IsFrame(frame)
    /\ parsed = NoFrame
    /\ stats = NoDataset
    /\ report = NoReport
    /\ summary = NoSummary
    /\ position = 0
    /\ data_json = <<>>
    /\ ClientUnused

StoreUnused ==
    UNCHANGED <<records, files, clock, next_id, req, response, faults,
                destroys, before, deleted, upload_file, validation, client>>

\* df = parse_csv_file(file)
Parse ==
    /\ parsed = NoFrame
    /\ parsed' = parse_csv_file(frame)
    /\ StoreUnused
    /\ UNCHANGED <<frame, stats, report, summary, position, data_json>>

\* stats = calculate_statistics(df)
Aggregate ==
    /\ parsed # NoFrame
    /\ stats = NoDataset
    /\ stats' = calculate_statistics(parsed)
    /\ StoreUnused
    /\ UNCHANGED <<frame, parsed, report, summary, position, data_json>>

NextAggregate == Parse \/ Aggregate

SpecAggregate == InitAggregate /\ [][NextAggregate]_vars

(***************************************************************************)
(* The report and the summary alone: the statistics fields of one stored    *)
(* dataset are drawn, then download_pdf renders the report and statistics   *)
(* builds the summary.                                                      *)
(***************************************************************************)
\* largest count of a type in a drawn distribution
MaxCount == 3

ReportTypes == {"Pump", "Valve", Unknown}

StoredAverages == {None, Num(0), Num(10 * Unit), Num(AllOnes)}

InitReport ==
    /\ records = {}
    /\ files = {}
    /\ clock = 0
    /\ next_id = 1
    /\ req = [s \in Slots |-> Idle]
    /\ response = NoResponse
    /\ faults = 0
    /\ destroys = 0
    /\ before = EmptyStore
    /\ deleted = {}
    /\ ValidationUnused
    /\ frame = NoFrame
    /\ parsed = NoFrame
    /\ \E avg_flowrate \in StoredAverages, avg_pressure \in {None, Num(0)} :
           \E n \in 0..Cardinality(ReportTypes) :
               \E types \in [1..n -> ReportTypes], counts \in [1..n -> 0..MaxCount] :
                   /\ \A i, j \in 1..n : i # j => types[i] # types[j]
                   /\ stats = [total_equipment |->
                                   total_count([i \in 1..n |-> <<types[i], counts[i]>>]),
                               avg_flowrate |-> avg_flowrate,
                               avg_pressure |-> avg_pressure,
                               avg_temperature |-> Num(20 * Unit),
                               equipment_distribution |->
                                   [i \in 1..n |-> <<types[i], counts[i]>>]]
    /\ report = NoReport
    /\ summary = NoSummary
    /\ position = 0
    /\ data_json = <<>>
    /\ ClientUnused

\* pdf_buffer = generate_pdf_report(dataset)
Render ==
    /\ report = NoReport
    /\ report' = generate_pdf_report(stats)
    /\ StoreUnused
    /\ UNCHANGED <<frame, parsed, stats, summary, position, data_json>>

\* stats = dataset.get_statistics_summary()
Summarize ==
    /\ summary = NoSummary
    /\ summary' = get_statistics_summary(stats)
    /\ StoreUnused
    /\ UNCHANGED <<frame, parsed, stats, report, position, data_json>>

NextReport == Render \/ Summarize

SpecReport == InitReport /\ [][NextReport]_vars

(***************************************************************************)
(* One upload request from serializer.is_valid() to its response, over a   *)
(* full store.  The uploaded file is a table whose Type and Flowrate       *)
(* fields vary in the first rows; a text field is empty, a word or the     *)
(* numeral 7.0.                                                            *)
(***************************************************************************)
Words == <<"Pump", "Valve", Unknown>>
Word(k) == [kind |-> "str", num |-> k]
Seven == Num(7 * Unit)

\* the values of a text column of a frame that come from the numeral: the
\* float 7.0 of a column read as float64, the str '7.0' of a column read
\* as object
SevenFloat == "7.0"
SevenStr == "'7.0'"

\* pd.read_csv infers float64 for a column whose fields are all numerals or
\* empty, and keeps the fields of any other column as str
object_dtype(cells) == \E i \in DOMAIN cells : cells[i].kind = "str"

infer_text(cells) ==
    [i \in DOMAIN cells |->
        IF isna(cells[i]) THEN NoType
        ELSE IF cells[i].kind = "str" THEN Words[cells[i].num + 1]
        ELSE IF object_dtype(cells) THEN SevenStr
        ELSE SevenFloat]

\* the frame pd.read_csv returns, by rows
DataFrame(df) ==
    [columns |-> Range(df.columns),
     rows |-> [r \in 1..df.len |->
                 [col \in Range(df.columns) |->
                     IF col \in string_cols
                     THEN infer_text(column(df, col))[r]
                     ELSE column(df, col)[r]]]]

\* file.read(): the content from the read position on, nothing at the end
read(file, pos) ==
    IF pos = 0 THEN file
    ELSE [file EXCEPT !.header = <<>>, !.rows = 0, !.cols = <<>>]

\* a validate_file that leaves the file where its read() left it
tell_without_reset(file, pos) ==
    IF ~file.csv_ext \/ file.size > MAX_FILE_SIZE THEN pos
    ELSE file.size

\* the read position when validate_file returns or raises: file.seek(0) and
\* file.read() run once the name and the size are accepted, and the second
\* file.seek(0) once every check has passed
tell_after_validate(file, pos) ==
    IF ~file.csv_ext \/ file.size > MAX_FILE_SIZE THEN pos
    ELSE IF validate_file(file).ok THEN 0
    ELSE file.size

ParseError == Response(400, "Error parsing CSV file", 0)

TypeFields == {NaN, Str, Seven}
FlowrateFields == {NaN, Num(10 * Unit), Num(AllOnes)}
UploadHeader == <<Equipment_Name, Type, Flowrate, Pressure, Temperature>>

\* the most rows whose fields vary
MaxVaried == 2

\* n rows whose Type and Flowrate vary, then pad rows without a gap
Table(n, pad, types, flowrates) ==
    [csv_ext |-> TRUE, size |-> 1024, header |-> UploadHeader,
     rows |-> n + pad,
     cols |-> [c \in 1..5 |-> [r \in 1..(n + pad) |->
                 IF c = 1 THEN Str
                 ELSE IF c = 2 THEN (IF r <= n THEN types[r] ELSE Word(1))
                 ELSE IF c = 3
                      THEN (IF r <= n THEN flowrates[r] ELSE Num(10 * Unit))
                 ELSE IF c = 4 THEN Num(20 * Unit)
                 ELSE Num(30 * Unit)]]]

IsUpload(f) ==
    \/ \E n \in 0..MaxVaried, pad \in {0, PreviewLimit} :
         \E types \in [1..n -> TypeFields],
            flowrates \in [1..n -> FlowrateFields] :
             f = Table(n, pad, types, flowrates)
    \/ f \in {TxtFile, HugeCsv, EmptyFile}

InitUpload ==
    /\ records = FullRecords
    /\ files = 1..(MAX_DATASETS_PER_USER + 1)
    /\ clock = MAX_DATASETS_PER_USER + 1
    /\ next_id = MAX_DATASETS_PER_USER + 2
    /\ req = [s \in Slots |-> Idle]
    /\ response = NoResponse
    /\ faults = 0
    /\ destroys = 0
    /\ before = EmptyStore
    /\ deleted = {}
    /\ IsUpload(upload_file)
    /\ validation = NotValidated
    /\ frame = NoFrame
    /\ parsed = NoFrame
    /\ stats = NoDataset
    /\ report = NoReport
    /\ summary = NoSummary
    /\ position \in {0, upload_file.size}
    /\ data_json = <<>>
    /\ ClientUnused

TableUnused == UNCHANGED <<records, files, clock, next_id, faults, destroys,
                           before, deleted, upload_file, report, summary,
                           client>>

\* serializer.is_valid(): 400 with the serializer's errors when it fails
IsValid(s, u) ==
    /\ req[s].pc = "idle"
    /\ validation = NotValidated
    /\ validation' = validate_file(upload_file)
    /\ position' = tell_after_validate(upload_file, position)
    /\ IF validate_file(upload_file).ok
       THEN /\ req' = [req EXCEPT ![s] = [Idle EXCEPT !.pc = "parse",
                                                      !.op = "upload",
                                                      !.user = u]]
            /\ Silent
       ELSE /\ response' = BadRequest
            /\ UNCHANGED req
    /\ TableUnused
    /\ UNCHANGED <<frame, parsed, stats, data_json>>

\* df, metadata = parse_csv_file(csv_file): a ValueError is answered 400
ParseCsvFile(s) ==
    /\ req[s].pc = "parse"
    /\ position' = upload_file.size
    /\ IF read(upload_file, position).header = <<>>
       THEN /\ Finish(s, ParseError)
            /\ UNCHANGED <<frame, parsed>>
       ELSE /\ frame' = DataFrame(read_csv(read(upload_file, position)))
            /\ parsed' = parse_csv_file(frame')
            /\ Goto(s, "aggregate")
    /\ TableUnused
    /\ UNCHANGED <<validation, stats, data_json>>

\* stats = calculate_statistics(df)
CalculateStatistics(s) ==
    /\ req[s].pc = "aggregate"
    /\ stats' = calculate_statistics(parsed)
    /\ Goto(s, "serialize")
    /\ TableUnused
    /\ UNCHANGED <<validation, frame, parsed, position, data_json>>

\* data_json = dataframe_to_json(df)
DataframeToJson(s) ==
    /\ req[s].pc = "serialize"
    /\ data_json' = dataframe_to_json(parsed)
    /\ Goto(s, "create")
    /\ TableUnused
    /\ UNCHANGED <<validation, frame, parsed, stats, position>>

\* Dataset.objects.create builds the instance, which takes uploaded_at from
\* timezone.now
CreateDataset(s) ==
    /\ req[s].pc = "create"
    /\ clock' = clock + 1
    /\ req' = [req EXCEPT ![s].pc = "insert", ![s].ts = clock + 1]
    /\ Silent
    /\ NoFault
    /\ UNCHANGED <<records, files, next_id, destroys, before, deleted>>

NextUpload ==
    \/ \E u \in Users : IsValid("r1", u)
    \/ ParseCsvFile("r1")
    \/ CalculateStatistics("r1")
    \/ DataframeToJson("r1")
    \/ CreateDataset("r1")
    \/ UploadStep("r1") /\ UNCHANGED <<before, deleted>>

SpecUpload == InitUpload /\ [][NextUpload]_vars

(***************************************************************************)
(* The desktop client.  A dataset is held as its id; the server is the     *)
(* environment: every call of the API client returns one of the results    *)
(* its code can return.  The handlers run on the GUI thread, one at a      *)
(* time; UploadThread runs beside them.                                    *)
(***************************************************************************)
MaxDatasetIds == 2
DatasetIds == 1..MaxDatasetIds

\* the lists of datasets a 200 of GET /datasets/ may hold
Listings ==
    {l \in UNION {[1..n -> DatasetIds] : n \in 0..MaxDatasetIds} :
        \A i, j \in DOMAIN l : i # j => l[i] # l[j]}

\* APIClient.get_datasets: (True, "Success", results) on a 200 and
\* (False, message, None) on any other status or exception
get_datasets(ok, results) ==
    [success |-> ok, datasets |-> IF ok THEN results ELSE <<>>,
     called |-> TRUE]

Answers == {get_datasets(ok, results) : ok \in BOOLEAN, results \in Listings}

\* what the upload request may meet
Outcomes == {"created", "rejected", "timeout", "file_not_found", "bad_body"}

\* an upload_csv that catches FileNotFoundError alone
upload_csv_uncaught(outcome, d) ==
    [raised |-> outcome \in {"timeout", "bad_body"},
     success |-> outcome = "created",
     dataset |-> IF outcome = "created" THEN d ELSE 0]

\* APIClient.upload_csv: (True, message, dataset) on a 201, (False, message,
\* None) on any other status; FileNotFoundError and every other Exception
\* are caught and returned as (False, message, None)
upload_csv(outcome, d) ==
    [raised |-> FALSE,
     success |-> outcome = "created",
     dataset |-> IF outcome = "created" THEN d ELSE 0]

\* MainWindow.update_dataset_combo: the selector is cleared and given one
\* item per dataset, in order, with the dataset's id as its data
update_dataset_combo(w) ==
    [w EXCEPT !.dataset_combo = [i \in DOMAIN w.datasets |-> w.datasets[i]]]

\* MainWindow.load_dataset_details; found: get_dataset returned the dataset
load_dataset_details(w, dataset_id, found) ==
    IF found
    THEN [w EXCEPT !.current_dataset = dataset_id,
                   !.pdf_btn = TRUE,
                   !.delete_btn = TRUE]
    ELSE w

\* MainWindow.load_datasets
load_datasets(w, ans, found) ==
    IF ans.success /\ ans.datasets # <<>>
    THEN LET shown == update_dataset_combo([w EXCEPT !.datasets = ans.datasets])
         IN  IF shown.datasets # <<>> /\ shown.current_dataset = 0
             THEN load_dataset_details(shown, shown.datasets[1], found)
             ELSE shown
    ELSE w

\* MainWindow.handle_dataset_changed
handle_dataset_changed(w, index, found) ==
    IF index >= 0 /\ w.dataset_combo[index + 1] # 0
    THEN load_dataset_details(w, w.dataset_combo[index + 1], found)
    ELSE w

\* MainWindow.handle_upload_complete, after progress.close()
handle_upload_complete(w, uploaded, dataset_id, ans, found) ==
    IF uploaded
    THEN LET loaded == load_datasets(w, ans, found)
         IN  IF dataset_id # 0
             THEN [loaded EXCEPT !.current_dataset = dataset_id]
             ELSE loaded
    ELSE w

\* MainWindow.handle_delete; yes: the user confirmed, removed: delete_dataset
\* returned True
handle_delete(w, yes, removed, ans, found) ==
    IF w.current_dataset = 0 THEN w
    ELSE IF yes /\ removed
    THEN LET loaded == load_datasets([w EXCEPT !.current_dataset = 0], ans, found)
         IN  [loaded EXCEPT !.pdf_btn = FALSE, !.delete_btn = FALSE]
    ELSE w

BackendUnused ==
    UNCHANGED <<records, files, clock, next_id, req, response, faults,
                destroys, before, deleted, upload_file, validation, pipeline>>

\* MainWindow.__init__: setup_ui, then load_datasets
InitDesktop ==
    /\ records = {}
    /\ files = {}
    /\ clock = 0
    /\ next_id = 1
    /\ req = [s \in Slots |-> Idle]
    /\ response = NoResponse
    /\ faults = 0
    /\ destroys = 0
    /\ before = EmptyStore
    /\ deleted = {}
    /\ ValidationUnused
    /\ frame = NoFrame
    /\ parsed = NoFrame
    /\ stats = NoDataset
    /\ report = NoReport
    /\ summary = NoSummary
    /\ position = 0
    /\ data_json = <<>>
    /\ \E ans \in Answers, found \in BOOLEAN :
         /\ window = load_datasets(NoWindow, ans, found)
         /\ answer = ans
    /\ progress = "none"
    /\ upload_thread = NoThread
    /\ emitted = 0

\* the window takes no input while the progress dialog, which is window
\* modal, is open
Responsive == progress # "open"

\* the Refresh button: load_datasets
Refresh ==
    /\ Responsive
    /\ \E ans \in Answers, found \in BOOLEAN :
         /\ window' = load_datasets(window, ans, found)
         /\ answer' = ans
    /\ UNCHANGED <<progress, upload_thread, emitted>>
    /\ BackendUnused

\* the user picks an item of the selector
SelectDataset ==
    /\ Responsive
    /\ \E index \in 0..(Len(window.dataset_combo) - 1), found \in BOOLEAN :
         window' = handle_dataset_changed(window, index, found)
    /\ UNCHANGED <<progress, upload_thread, emitted, answer>>
    /\ BackendUnused

\* the Delete button, which can be clicked when it is enabled; the server
\* does not list the dataset it has just deleted
HandleDelete ==
    /\ Responsive
    /\ window.delete_btn
    /\ \E yes \in BOOLEAN, removed \in BOOLEAN, ans \in Answers,
          found \in BOOLEAN :
         /\ removed => window.current_dataset \notin Range(ans.datasets)
         /\ window' = handle_delete(window, yes, removed, ans, found)
         /\ answer' = IF window.current_dataset # 0 /\ yes /\ removed
                      THEN ans ELSE answer
    /\ UNCHANGED <<progress, upload_thread, emitted>>
    /\ BackendUnused

\* MainWindow.handle_upload with a file chosen: the progress dialog is
\* shown and the thread started
HandleUpload ==
    /\ Responsive
    /\ progress' = "open"
    /\ upload_thread' = [NoThread EXCEPT !.pc = "running"]
    /\ emitted' = 0
    /\ UNCHANGED <<window, answer>>
    /\ BackendUnused

\* UploadThread.run: api_client.upload_csv returns or raises
UploadCsv ==
    /\ upload_thread.pc = "running"
    /\ \E outcome \in Outcomes, d \in DatasetIds :
         upload_thread' =
            [pc |-> IF upload_csv(outcome, d).raised THEN "raised"
                    ELSE "returned",
             outcome |-> outcome,
             success |-> upload_csv(outcome, d).success,
             dataset |-> upload_csv(outcome, d).dataset]
    /\ UNCHANGED <<window, progress, emitted, answer>>
    /\ BackendUnused

\* UploadThread.run: self.upload_complete.emit(success, message, dataset)
Emit ==
    /\ upload_thread.pc = "returned"
    /\ emitted' = emitted + 1
    /\ upload_thread' = [upload_thread EXCEPT !.pc = "emitted"]
    /\ UNCHANGED <<window, progress, answer>>
    /\ BackendUnused

\* the GUI thread delivers the signal: handle_upload_complete
HandleUploadComplete ==
    /\ upload_thread.pc = "emitted"
    /\ progress' = "closed"
    /\ upload_thread' = [upload_thread EXCEPT !.pc = "finished"]
    /\ \E ans \in Answers, found \in BOOLEAN :
         /\ window' = handle_upload_complete(window, upload_thread.success,
                                             upload_thread.dataset, ans, found)
         /\ answer' = IF upload_thread.success THEN ans ELSE answer
    /\ UNCHANGED emitted
    /\ BackendUnused

NextDesktop ==
    \/ Refresh
    \/ SelectDataset
    \/ HandleDelete
    \/ HandleUpload
    \/ UploadCsv
    \/ Emit
    \/ HandleUploadComplete

SpecDesktop == InitDesktop /\ [][NextDesktop]_vars

\* the thread the upload was started on runs, the request returns within
\* its timeout, and the event loop of the GUI thread delivers the signal
SpecDesktopFair ==
    /\ SpecDesktop
    /\ WF_vars(UploadCsv)
    /\ WF_vars(Emit)
    /\ WF_vars(HandleUploadComplete)

(***************************************************************************)
(* What a file is, said without the validator: used to state the claims    *)
(* about validation.                                                       *)
(***************************************************************************)
Validated == validation # NotValidated

\* the header's names after trimming and replacing spaces by underscores
NormalizedHeader(f) == {replace_space(strip(f.header[i])) : i \in DOMAIN f.header}

HasRequiredColumns(f) == Range(REQUIRED_COLUMNS) \subseteq NormalizedHeader(f)

LackingColumns(f) == Range(REQUIRED_COLUMNS) \ NormalizedHeader(f)

\* the cells under the header name that normalizes to c
CellsOf(f, c) ==
    f.cols[CHOOSE i \in DOMAIN f.header : replace_space(strip(f.header[i])) = c]

MissingRows(f, c) == Cardinality({i \in 1..f.rows : CellsOf(f, c)[i] = NaN})

WellFormedNumbers(f) ==
    \A c \in Range(numeric_columns) :
        \A i \in 1..f.rows : CellsOf(f, c)[i].kind # "str"

SomeColumnSparse(f) ==
    \E c \in Range(REQUIRED_COLUMNS) : MissingRows(f, c) * 2 > f.rows

\* .csv name, at most 5 MiB, parsable, at least one row
GoodEnvelope(f) ==
    f.csv_ext /\ f.size <= MAX_FILE_SIZE /\ f.header # <<>> /\ f.rows >= 1

NameSpelledWithSpace(f) ==
    \E i \in DOMAIN f.header : strip(f.header[i]) = Equipment_Name_Alt

NameSpelledWithUnderscore(f) ==
    \E i \in DOMAIN f.header : strip(f.header[i]) = Equipment_Name

(***************************************************************************)
(* C7: every otherwise valid CSV with the five required columns validates, *)
(* whether the name column is spelled 'Equipment_Name' or 'Equipment Name'.*)
(* Fails: df['Equipment_Name'] in the missing-value loop raises KeyError   *)
(* for the spelling with a space.                                          *)
(***************************************************************************)
C7_BothSpellingsValidate ==
    (/\ Validated
     /\ GoodEnvelope(upload_file)
     /\ HasRequiredColumns(upload_file)
     /\ WellFormedNumbers(upload_file)
     /\ ~SomeColumnSparse(upload_file))
    => validation.ok

\* the error is the one for missing columns and names the lacking ones
NamesExactlyLacking ==
    /\ ~validation.ok
    /\ validation.error.kind = "missing_columns"
    /\ validation.error.missing = LackingColumns(upload_file)

(***************************************************************************)
(* C8 as stated: every CSV (a .csv name, at most 5 MiB, a header) whose    *)
(* normalized header lacks a required column fails validation with an      *)
(* error naming exactly the lacking columns.                                *)
(* Fails for a CSV of a header and no row: it is rejected as empty.        *)
(***************************************************************************)
C8_Original ==
    (/\ Validated
     /\ upload_file.csv_ext
     /\ upload_file.size <= MAX_FILE_SIZE
     /\ upload_file.header # <<>>
     /\ ~HasRequiredColumns(upload_file))
    => NamesExactlyLacking

(***************************************************************************)
(* C8 amended: every CSV with a .csv name, of at most 5 MiB, that parses   *)
(* and has at least one row, and whose normalized header lacks a required  *)
(* column, fails validation with an error naming exactly the lacking       *)
(* columns.                                                                *)
(***************************************************************************)
C8_NamesMissingColumns ==
    (/\ Validated
     /\ GoodEnvelope(upload_file)
     /\ ~HasRequiredColumns(upload_file))
    => NamesExactlyLacking

\* a file with 'Equipment Name' present and two other columns lacking was
\* rejected with those two named
C8_Witness ==
    /\ Validated
    /\ GoodEnvelope(upload_file)
    /\ NameSpelledWithSpace(upload_file)
    /\ LackingColumns(upload_file) = {Type, Pressure}
    /\ validation.error.missing = {Type, Pressure}

(***************************************************************************)
(* C9: a CSV that passes all earlier checks fails validation if and only   *)
(* if some required column has more than 50% of its rows missing.          *)
(* Fails with C7: the spelling 'Equipment Name' is rejected with no column *)
(* sparse.                                                                 *)
(***************************************************************************)
C9_FailsIffSparse ==
    (/\ Validated
     /\ GoodEnvelope(upload_file)
     /\ HasRequiredColumns(upload_file)
     /\ WellFormedNumbers(upload_file))
    => (~validation.ok <=> SomeColumnSparse(upload_file))

(***************************************************************************)
(* What the store holds, said without the view's queries: used to state    *)
(* the claims about uploads and deletes.                                   *)
(***************************************************************************)
OwnedBy(u) == {r \in records : r.user = u}

OwnedIn(table, u) == {r \in table : r.user = u}

\* the files stored for the datasets of u
StoredFor(u) == files \cap {r.uploaded_at : r \in OwnedBy(u)}

\* the k latest rows of S
Latest(S, k) ==
    {r \in S : Cardinality({q \in S : q.uploaded_at > r.uploaded_at}) < k}

\* the user whose request takes the step of slot s
Actor(s) == IF req[s].pc = "idle" THEN req'[s].user ELSE req[s].user

\* the row an upload in progress in slot s has inserted
NewRow(s) ==
    [id |-> req[s].new_id, user |-> req[s].user, uploaded_at |-> req[s].ts,
     file |-> TRUE]

\* one file per way of failing validation
FailingFiles ==
    {TxtFile, HugeCsv, EmptyFile, HeaderOnlyCsv, NoTypeCsv, TextInNumbersCsv,
     SparseCsv}

\* C1: when requests do not overlap and no request is in progress, each
\* user owns at most MAX_DATASETS_PER_USER datasets.
\* Fails with C3: an upload whose eviction raises leaves a sixth dataset.
C1_CapWhenQuiet ==
    Quiet => \A u \in Users : Cardinality(OwnedBy(u)) <= MAX_DATASETS_PER_USER

\* C2: when requests do not overlap, an upload answered 201 leaves its user
\* with exactly the min(5, n) latest of the datasets owned before and the
\* new one, so every dataset evicted is older than every dataset retained
C2_RetainsLatest ==
    [][response'.status = 201 =>
         LET u == req["r1"].user
             pool == OwnedIn(before.records, u) \cup {NewRow("r1")}
         IN  /\ OwnedIn(records', u) = Latest(pool, MAX_DATASETS_PER_USER)
             /\ \A gone \in pool \ OwnedIn(records', u),
                   kept \in OwnedIn(records', u) :
                    gone.uploaded_at < kept.uploaded_at
             /\ Cardinality(pool) > MAX_DATASETS_PER_USER
                    => Cardinality(OwnedIn(records', u)) = MAX_DATASETS_PER_USER
    ]_vars

\* a sixth upload was answered 201 after it evicted the oldest dataset
C2_Witness ==
    /\ response.status = 201
    /\ destroys = 0
    /\ faults = 0
    /\ next_id - 1 > Cardinality(records)
    /\ \E u \in Users : Cardinality(OwnedBy(u)) = MAX_DATASETS_PER_USER

\* C3: an upload is atomic: it is answered 201 with the new dataset in the
\* table, or it is answered with an error and the table of datasets is as
\* the request found it.
\* Fails: the view has no transaction and an exception in the eviction loop
\* is answered 500 with the new dataset in the table.
C3_UploadAtomic ==
    [][(req["r1"].op = "upload" /\ req'["r1"].pc = "idle") =>
          \/ response'.status = 201 /\ NewRow("r1") \in records'
          \/ response'.status \in {400, 500} /\ records' = before.records
    ]_vars

\* C4: an upload of a file that fails validation is answered 400 and
\* changes neither the table nor the stored files, so nothing is evicted:
\* the view rejects each file of FailingFiles and no step accepts one, and
\* the step that answers 400 leaves the store and the requests as they are
C4_InvalidUploadChangesNothing ==
    /\ [](Quiet => \A u \in Users, f \in FailingFiles :
                       ENABLED RejectUpload("r1", u, f))
    /\ [][/\ (req["r1"].pc = "idle" /\ req'["r1"].op = "upload") =>
                 \A u \in Users, f \in FailingFiles :
                     ~AcceptUpload("r1", u, f, MaxUploads)
          /\ response'.status = 400 =>
                 /\ UNCHANGED <<records, files, next_id>>
                 /\ req'["r1"].pc = "idle"
       ]_vars

\* an upload was answered 400 while its user was at the cap
C4_Witness ==
    /\ response = BadRequest
    /\ \E u \in Users : Cardinality(OwnedBy(u)) = MAX_DATASETS_PER_USER

\* C5: under every interleaving, a step that creates, changes or deletes a
\* dataset of a user, or a file of one, is a step of that user's request
C5_OthersUntouched ==
    [][\A u \in Users :
          (OwnedIn(records', u) # OwnedBy(u) \/ StoredFor(u)' # StoredFor(u))
              => \E s \in Slots : req'[s] # req[s] /\ Actor(s) = u
    ]_vars

\* alice's upload evicts while her delete is in progress and bob's
\* dataset and its file are there
C5_Witness ==
    /\ \E s \in Slots : /\ req[s].user = "alice"
                        /\ req[s].pc = "evict_record"
    /\ \E s \in Slots : /\ req[s].user = "alice"
                        /\ req[s].pc = "del_record"
    /\ OwnedBy("bob") # {}
    /\ StoredFor("bob") # {}

\* the datasets of the other users
ForeignIds(u) == {r.id : r \in records \ OwnedBy(u)}

\* a primary key no dataset ever had
AbsentId == next_id

\* the primary keys of no dataset: deleted, evicted or never handed out
MissingIds == (1..next_id) \ {r.id : r \in records}

\* C6: retrieve, delete, statistics and report answer a request for
\* another user's dataset as they answer one for a dataset that does not
\* exist, with 404 and the same body, and in both cases leave the store
\* as it is
C6_ForeignLooksAbsent ==
    [][\A s \in Slots, u \in Users : \A pk \in ForeignIds(u) \cup MissingIds :
          /\ Retrieve(s, u, pk) =>
                 response' = retrieve(u, AbsentId)
          /\ Statistics(s, u, pk) =>
                 response' = statistics(u, AbsentId)
          /\ (\E rendered \in BOOLEAN : DownloadPdf(s, u, pk, rendered)) =>
                 \A rendered \in BOOLEAN :
                     response' = download_pdf(u, AbsentId, rendered)
          /\ StartDestroy(s, u, pk) =>
                 response' = destroy_lookup(u, AbsentId)
          /\ (\/ Retrieve(s, u, pk)
              \/ Statistics(s, u, pk)
              \/ \E rendered \in BOOLEAN : DownloadPdf(s, u, pk, rendered)
              \/ StartDestroy(s, u, pk)) =>
                 /\ response'.status = 404
                 /\ UNCHANGED <<records, files>>
    ]_vars

\* a request was answered 404 while every dataset handed out was there:
\* the request named another user's dataset
C6_Witness ==
    /\ response = NotFound
    /\ Cardinality(records) = next_id - 1
    /\ \E r \in records : r.user = "bob"
    /\ \E r \in records : r.user = "alice"

\* C10: when the storage and the database work, a user owns more than
\* MAX_DATASETS_PER_USER datasets only while a request of that user is in
\* progress
C10_ExcessOnlyInFlight ==
    \A u \in Users :
        Cardinality(OwnedBy(u)) > MAX_DATASETS_PER_USER
            => \E s \in Slots : req[s].pc # "idle" /\ req[s].user = u

\* two uploads of one user overlap, the user owns more than
\* MAX_DATASETS_PER_USER datasets, and the dataset one upload is about to
\* evict has been deleted by the other
C10_Witness ==
    \E u \in Users :
        /\ \A s \in Slots : req[s].op = "upload" /\ req[s].user = u
        /\ Cardinality(OwnedBy(u)) > MAX_DATASETS_PER_USER
        /\ \E s \in Slots :
              /\ req[s].pc = "evict_file"
              /\ Head(req[s].pend).id \notin {r.id : r \in records}

(***************************************************************************)
(* Claims about parsing and aggregation (SpecAggregate).                   *)
(***************************************************************************)
Aggregated == stats # NoDataset

RECURSIVE sum_counts(_)
sum_counts(distribution) ==
    IF distribution = <<>> THEN 0
    ELSE distribution[1][2] + sum_counts(Tail(distribution))

MissingType == \E i \in DOMAIN frame.rows : frame.rows[i][Type] = NoType

\* C11: for every aggregated data frame that has the Type column, as every
\* uploaded file has, the counts of equipment_distribution sum to
\* total_equipment, also when some rows have no Type.
C11_DistributionSumsToTotal ==
    (Aggregated /\ Type \in frame.columns) =>
        sum_counts(stats.equipment_distribution) = stats.total_equipment

\* three records, one of them without a Type, counted as 'Unknown'
C11_Witness ==
    /\ Aggregated
    /\ Type \in frame.columns
    /\ MissingType
    /\ stats.total_equipment = 3
    /\ \E i \in DOMAIN stats.equipment_distribution :
           stats.equipment_distribution[i] = <<Unknown, 1>>
    /\ sum_counts(stats.equipment_distribution) = 3

(***************************************************************************)
(* Claims about the admin site and the update routes (SpecAdmin).          *)
(***************************************************************************)
\* C12: a dataset that is still in the store after a step has the owner and
\* the upload time it had before the step, whoever took the step: a client
\* or the admin.
C12_DatasetsImmutable ==
    [][\A r \in records : \A q \in records' :
           q.id = r.id => (q.user = r.user /\ q.uploaded_at = r.uploaded_at)]_vars

(***************************************************************************)
(* Claims about GET /datasets/ (SpecList).                                 *)
(***************************************************************************)
NewestFirst(l) ==
    \A i, j \in DOMAIN l : i < j => l[i].uploaded_at > l[j].uploaded_at

\* at most 5 datasets, all of the caller, newest first
ListedWell(s) ==
    /\ Len(response'.results) <= 5
    /\ \A i \in DOMAIN response'.results :
           response'.results[i].user = req[s].user
    /\ NewestFirst(response'.results)

\* C13: every answer of GET /datasets/, also one given while an upload or
\* a delete of the same user is in progress, holds at most 5 datasets, all
\* owned by the caller, newest first, and a 'count' equal to their number.
C13_ListCountsItsResults ==
    [][\A s \in Slots : ListResults(s) =>
           /\ ListedWell(s)
           /\ response'.count = Len(response'.results)]_vars

\* the same without the count
C13_ListedWell == [][\A s \in Slots : ListResults(s) => ListedWell(s)]_vars

(***************************************************************************)
(* Claims about DELETE /datasets/{id}/ (SpecDelete).                       *)
(***************************************************************************)
\* the dataset a DELETE in progress in slot s is about
Target(s) == Head(req[s].pend)

OthersUnchanged(s) ==
    {r \in records : r.id # Target(s).id} = {r \in records' : r.id # Target(s).id}

\* what a request about pk is answered in this step, if it is one
AnsweredNotFound(pk) ==
    \A s \in Slots, u \in Users :
        /\ Retrieve(s, u, pk) => response' = NotFound
        /\ Statistics(s, u, pk) => response' = NotFound
        /\ (\E rendered \in BOOLEAN : DownloadPdf(s, u, pk, rendered)) =>
               response' = NotFound
        /\ StartDestroy(s, u, pk) => response' = NotFound

\* C14: the last step of a DELETE of an owned dataset answers 204 and leaves
\* neither the record nor the file; both steps of the DELETE leave every
\* other dataset as it was; and once an id was answered 204, every retrieve,
\* statistics, report and delete on it, by any caller, is answered 404.
C14_DeletedStaysGone ==
    [][/\ \A s \in Slots : DestroyRecord(s) =>
              /\ response' = Deleted
              /\ \A r \in records' : r.id # Target(s).id
              /\ Target(s).uploaded_at \notin files'
       /\ \A s \in Slots : (DestroyFile(s) \/ DestroyRecord(s)) => OthersUnchanged(s)
       /\ \A pk \in deleted : AnsweredNotFound(pk)]_vars

\* the part of C14 about the DELETE itself
C14_DeleteRemoves ==
    [][/\ \A s \in Slots : DestroyRecord(s) =>
              /\ response' = Deleted
              /\ \A r \in records' : r.id # Target(s).id
              /\ Target(s).uploaded_at \notin files'
       /\ \A s \in Slots : (DestroyFile(s) \/ DestroyRecord(s)) => OthersUnchanged(s)]_vars

(***************************************************************************)
(* Claims about the read views (SpecList).                                 *)
(***************************************************************************)
\* a step of retrieve, list, statistics or download_pdf
ReadStep ==
    \E s \in Slots :
        \/ \E u \in Users, pk \in Ids : Retrieve(s, u, pk)
        \/ \E u \in Users, pk \in Ids : Statistics(s, u, pk)
        \/ \E u \in Users, pk \in Ids, rendered \in BOOLEAN :
               DownloadPdf(s, u, pk, rendered)
        \/ \E u \in Users : ListCount(s, u)
        \/ ListResults(s)

\* a report of an owned dataset that failed to render
FailedReport ==
    \E s \in Slots, u \in Users, pk \in Ids :
        get(pk, u) # {} /\ DownloadPdf(s, u, pk, FALSE)

\* C15: every step of retrieve, list, statistics and report leaves the rows
\* and the stored files as they are, whatever other requests are in
\* progress; a report that fails to render is answered 500 with the error
\* message and no document.
C15_ReadsChangeNothing ==
    [][/\ UNCHANGED <<records, files, clock, next_id>> \/ ~ReadStep
       /\ (response' = PdfError /\ response'.msg # "pdf") \/ ~FailedReport]_vars

\* a report failed to render while an upload was evicting
C15_Witness ==
    /\ response = PdfError
    /\ req["r1"].pc = "evict_record"
    /\ \E u \in Users : Cardinality(filter_user(u)) > MAX_DATASETS_PER_USER

(***************************************************************************)
(* Claims about the averages (SpecAggregate).                              *)
(***************************************************************************)
NumericColumns == {Flowrate, Pressure, Temperature}

avg_of(st, col) ==
    IF col = Flowrate THEN st.avg_flowrate
    ELSE IF col = Pressure THEN st.avg_pressure
    ELSE st.avg_temperature

\* the mean of the values of the column that the file gives
MeanOfKnown(col) == mean(series(frame, col))

SomeKnown(col) == \E i \in DOMAIN frame.rows : ~isna(frame.rows[i][col])
SomeMissing(col) == \E i \in DOMAIN frame.rows : isna(frame.rows[i][col])

\* every missing value of the column is replaced by the mean of the known
Imputed(col) ==
    \A i \in DOMAIN frame.rows :
        parsed.rows[i][col] = IF isna(frame.rows[i][col]) THEN MeanOfKnown(col)
                          ELSE frame.rows[i][col]

\* C16: in an aggregated data frame, every missing value of a numeric
\* column with a known value is replaced by the mean of the known values,
\* and the stored average of the column equals that same mean.
C16_AverageIsMeanOfKnown ==
    Aggregated =>
        \A col \in NumericColumns \cap frame.columns :
            SomeKnown(col) =>
                /\ Imputed(col)
                /\ avg_of(stats, col) = MeanOfKnown(col)

\* the part of C16 about the replaced values
C16_Imputed ==
    Aggregated =>
        \A col \in NumericColumns \cap frame.columns :
            SomeKnown(col) => Imputed(col)

NoRecords == Len(parsed.rows) = 0

KnownAfterParsing(col) ==
    /\ col \in parsed.columns
    /\ \E i \in DOMAIN parsed.rows : ~isna(parsed.rows[i][col])

\* C18: the aggregator gives None, and not NaN, as the average of a numeric
\* field when it is given no record or when the field is absent, and the
\* arithmetic mean of the field over all records otherwise.
C18_AverageNoneOrMean ==
    Aggregated =>
        \A col \in NumericColumns :
            /\ (NoRecords \/ col \notin parsed.columns) => avg_of(stats, col) = None
            /\ KnownAfterParsing(col) =>
                   /\ avg_of(stats, col).kind = "num"
                   /\ avg_of(stats, col) = mean(series(parsed, col))

\* the same for the data frames that have a record
C18_WithRecords ==
    (Aggregated /\ ~NoRecords) =>
        \A col \in NumericColumns :
            /\ col \notin parsed.columns => avg_of(stats, col) = None
            /\ KnownAfterParsing(col) =>
                   /\ avg_of(stats, col).kind = "num"
                   /\ avg_of(stats, col) = mean(series(parsed, col))

(***************************************************************************)
(* Claims about the report and the summary (SpecReport).                   *)
(***************************************************************************)
Rendered == report # NoReport
Summarized == summary # NoSummary

\* the k-th average: flowrate, pressure, temperature
StoredAverage(k) ==
    IF k = 1 THEN stats.avg_flowrate
    ELSE IF k = 2 THEN stats.avg_pressure
    ELSE stats.avg_temperature

SummaryAverage(k) ==
    IF k = 1 THEN summary.avg_flowrate
    ELSE IF k = 2 THEN summary.avg_pressure
    ELSE summary.avg_temperature

\* C17: the report shows 'N/A' for an average exactly when the stored
\* average is null and shows the number, to two decimals, for every other
\* stored value; the summary gives null exactly when the stored average is
\* null.
C17_AbsentIffNull ==
    \A k \in 1..3 :
        /\ Rendered =>
               /\ report.statistics[k] = NotAvailable <=> StoredAverage(k) = None
               /\ StoredAverage(k) # None =>
                      report.statistics[k] = format_2f(StoredAverage(k))
        /\ Summarized =>
               (SummaryAverage(k) = None <=> StoredAverage(k) = None)

\* the same for the stored averages other than 0.0
C17_ExceptZero ==
    \A k \in 1..3 :
        StoredAverage(k) # Num(0) =>
            /\ Rendered =>
                   /\ report.statistics[k] = NotAvailable <=> StoredAverage(k) = None
                   /\ StoredAverage(k) # None =>
                          report.statistics[k] = format_2f(StoredAverage(k))
            /\ Summarized =>
                   (SummaryAverage(k) = None <=> StoredAverage(k) = None)

\* count / total * 100 to one decimal, computed on the integers
PercentTenths(count, total) == round_half_even(count * 1000, total)

\* C19: for a stored distribution that is not empty and counts at least one
\* record, the table of the report has one row per type, the rows are in
\* non-increasing order of count, and the percentage of a row is
\* count / total * 100 to one decimal.
C19_DistributionTable ==
    (Rendered /\ stats.equipment_distribution # <<>>) =>
        LET rows == report.distribution
            items == stats.equipment_distribution
            total == total_count(items)
        IN  /\ Len(rows) = Len(items)
            /\ {<<rows[i].type, rows[i].count>> : i \in DOMAIN rows} = Range(items)
            /\ \A i, j \in DOMAIN rows : i < j => rows[i].count >= rows[j].count
            /\ total > 0 =>
                   \A i \in DOMAIN rows :
                       rows[i].percentage =
                           Fixed(".1f", PercentTenths(rows[i].count, total))

\* {Valve: 1, Pump: 3} is shown as Pump 3 75.0%, Valve 1 25.0%
C19_Witness ==
    /\ Rendered
    /\ stats.equipment_distribution = <<<<"Valve", 1>>, <<"Pump", 3>>>>
    /\ report.distribution =
           <<[type |-> "Pump", count |-> 3, percentage |-> Fixed(".1f", 750)],
             [type |-> "Valve", count |-> 1, percentage |-> Fixed(".1f", 250)]>>

\* C20: the report of a dataset with an empty distribution is built and has
\* neither the distribution table nor the bar chart; in the report of a
\* distribution whose counts sum to 0 every percentage is 0.
C20_EmptyDistribution ==
    Rendered =>
        /\ report.built
        /\ stats.equipment_distribution = <<>> =>
               /\ report.sections = {"Summary Statistics"}
               /\ report.distribution = <<>>
               /\ report.chart = NoChart
        /\ (stats.equipment_distribution # <<>>
              /\ total_count(stats.equipment_distribution) = 0) =>
               \A i \in DOMAIN report.distribution :
                   report.distribution[i].percentage = Fixed(".1f", 0)

\* a report without distribution
C20_Witness ==
    /\ Rendered
    /\ report.built
    /\ stats.equipment_distribution = <<>>
    /\ stats.total_equipment = 0
    /\ report.sections = {"Summary Statistics"}

\* a report of two types that count no record
C20_WitnessZero ==
    /\ Rendered
    /\ report.built
    /\ Len(stats.equipment_distribution) = 2
    /\ total_count(stats.equipment_distribution) = 0
    /\ report.chart.values = <<0, 0>>

(***************************************************************************)
(* The upload pipeline.                                                    *)
(***************************************************************************)
Serialized == data_json # <<>>

Preview == get_data_preview(data_json, PreviewLimit)

\* the field a value of the records is written as: nothing for None, the
\* numeral for 7.0 whether float or str, the word for a word
word_index(w) == CHOOSE k \in DOMAIN Words : Words[k] = w

field(col, v) ==
    IF col \in string_cols
    THEN IF v \in {NoneText, NoType} THEN NaN
         ELSE IF v \in {SevenFloat, SevenStr} THEN Seven
         ELSE Word(word_index(v) - 1)
    ELSE IF v = None THEN NaN ELSE v

to_csv(json) ==
    [csv_ext |-> TRUE, size |-> 1024, header |-> UploadHeader,
     rows |-> Len(json),
     cols |-> [c \in 1..5 |-> [r \in 1..Len(json) |->
                 field(UploadHeader[c], json[r][UploadHeader[c]])]]]

\* the records written as CSV, read and parsed again
Reparsed(json) ==
    dataframe_to_json(parse_csv_file(DataFrame(read_csv(to_csv(json)))))

\* the Type column of the uploaded file holds a numeral and an empty field,
\* and no word
NumeralsAndGap ==
    /\ \E r \in 1..upload_file.rows : upload_file.cols[2][r] = Seven
    /\ \E r \in 1..upload_file.rows : upload_file.cols[2][r] = NaN
    /\ \A r \in 1..upload_file.rows : upload_file.cols[2][r] # Str

\* C21: the first 10 records of the parsed result of a valid CSV, written
\* out and parsed again, are those same records
C21_RoundTrip == Serialized => Reparsed(Preview) = Preview

\* the round trip of the numeric columns alone holds: the imputed values
\* come back as they were written
C21_NumbersRoundTrip ==
    Serialized =>
        \A r \in DOMAIN Preview : \A col \in Range(numeric_columns) :
            Reparsed(Preview)[r][col] = Preview[r][col]

IdsIn(table) == {row.id : row \in table}

\* the step stores a new dataset, removes one, sends the 201
Persists == IdsIn(records') \ IdsIn(records) # {}
Evicts ==
    \/ IdsIn(records) \ IdsIn(records') # {}
    \/ files \ files' # {}
Responds == response'.status = 201

Uploader == req["r1"].user

\* C22: within one upload the steps occur in the order validate, parse,
\* aggregate, persist, evict, respond: the file is parsed only once it is
\* validated and aggregated only once it is parsed, the dataset is stored
\* only after validation, parsing and aggregation have succeeded, a dataset
\* is evicted only when the new one is stored, and the 201 is sent only
\* when the new dataset is stored and no dataset beyond the cap is left
C22_StepsInOrder ==
    [][ /\ parsed' # parsed => validation.ok
        /\ stats' # stats => parsed # NoFrame
        /\ Persists =>
              /\ validation.ok
              /\ parsed = parse_csv_file(frame) /\ parsed # NoFrame
              /\ stats = calculate_statistics(parsed)
              /\ data_json = dataframe_to_json(parsed)
        /\ Evicts => req["r1"].new_id \in IdsIn(records)
        /\ Responds =>
              /\ response'.dataset \in IdsIn(records)
              /\ req["r1"].pend = <<>> \/ Evicts
              /\ Cardinality(OwnedIn(records', Uploader))
                     <= MAX_DATASETS_PER_USER ]_vars

\* the 201 of an upload that evicted the oldest dataset of its user
C22_Witness ==
    /\ response.status = 201
    /\ response.dataset \in IdsIn(records)
    /\ 2 \notin IdsIn(records)
    /\ 2 \notin files

\* the frame and the records of the whole content of the uploaded file
WholeFrame == DataFrame(read_csv(upload_file))
WholeRecords == dataframe_to_json(parse_csv_file(WholeFrame))

\* C23: validation does not consume the uploaded content: once validate_file
\* has succeeded the read position is at the start, the parser reads the
\* whole content that was validated, no parse error is answered for it, and
\* the records to persist derive from that content
C23_ValidationRewinds ==
    /\ validation.ok /\ req["r1"].pc = "parse" => position = 0
    /\ validation.ok => response # ParseError
    /\ parsed # NoFrame => frame = WholeFrame
    /\ Serialized => data_json = WholeRecords

\* an upload answered 201 whose file the parser has read to its end
C23_Witness ==
    /\ response.status = 201
    /\ validation.ok
    /\ position = upload_file.size
    /\ upload_file.rows > PreviewLimit
    /\ data_json = WholeRecords

\* the upload has stored its dataset
Stored == req["r1"].new_id # 0 \/ response.status = 201

\* C27: every dataset persisted by upload has total_equipment equal to the
\* number of records in data_json, and that number is at least 1
C27_CountsItsRecords ==
    Stored =>
        /\ stats.total_equipment = record_count(data_json)
        /\ record_count(data_json) >= 1

\* the dataset of a CSV with a single data row is stored
C27_Witness ==
    /\ response.status = 201
    /\ upload_file.rows = 1
    /\ stats.total_equipment = 1
    /\ record_count(data_json) = 1

(***************************************************************************)
(* Overlapping uploads.                                                    *)
(***************************************************************************)
\* two datasets were inserted in the other order than their timestamps
\* were taken, which only overlapping uploads do
InsertedOutOfOrder ==
    \E a, b \in records :
        a.user = b.user /\ a.id < b.id /\ a.uploaded_at > b.uploaded_at

\* C24: once all of a set of overlapping uploads have completed, and no
\* delete ran, every user owns at most 5 datasets
C24_CapAfterOverlap ==
    (\A s \in Slots : req[s].pc = "idle") /\ destroys = 0 =>
        \A u \in Users :
            Cardinality(OwnedIn(records, u)) <= MAX_DATASETS_PER_USER

\* overlapping uploads have completed, more than 5 of them by one user
C24_Witness ==
    /\ \A s \in Slots : req[s].pc = "idle"
    /\ InsertedOutOfOrder
    /\ \E u \in Users :
          /\ Cardinality(OwnedIn(records, u)) = MAX_DATASETS_PER_USER
          /\ Cardinality({t \in files : t \notin {r.uploaded_at : r \in records}}) = 0
          /\ next_id > MAX_DATASETS_PER_USER + 1
          /\ \A r \in records : r.user = u

\* C25: whenever an upload returns 201, the dataset it reports is in the
\* store at the moment of the response
C25_ReportedIsStored ==
    response.status = 201 => response.dataset \in IdsIn(records)

(***************************************************************************)
(* Stored files and dataset records.                                       *)
(***************************************************************************)
FilesOfRecords == {row.uploaded_at : row \in {r \in records : r.file}}

\* C26: after any sequence of completed, non-overlapping upload and delete
\* requests every dataset record has its stored file and every stored file
\* belongs to a dataset record
C26_FilesMatchRecords ==
    Quiet => /\ \A row \in records : row.file /\ row.uploaded_at \in files
             /\ files \subseteq FilesOfRecords

\* the same of the requests that met no failure of the storage or database
C26_WithoutFaults == faults = 0 => C26_FilesMatchRecords

(***************************************************************************)
(* The desktop client.                                                     *)
(***************************************************************************)
Uploading == progress = "open"

\* C28: every upload started by handle_upload eventually emits
\* upload_complete exactly once, whether the request succeeds, is rejected,
\* times out or raises, and the progress dialog opened for it is then
\* closed: the client never stays uploading forever
C28_UploadCompletes ==
    /\ [](emitted <= 1)
    /\ [](progress = "closed" => emitted = 1)
    /\ Uploading ~> (progress = "closed" /\ emitted = 1)

\* the upload timed out, its signal was emitted once and its dialog closed
C28_Witness ==
    /\ upload_thread.outcome = "timeout"
    /\ upload_thread.pc = "finished"
    /\ progress = "closed"
    /\ emitted = 1

\* C29: between user actions the Download PDF and Delete buttons are
\* enabled if and only if current_dataset is not None
C29_ButtonsFollowDataset ==
    /\ window.pdf_btn <=> window.current_dataset # 0
    /\ window.delete_btn <=> window.current_dataset # 0

\* C30: after every load_datasets call that the server answered
\* successfully, the dataset list and the selector of the client hold
\* exactly the datasets the server returned, in the same order, an empty
\* answer included
C30_ListIsTheAnswer ==
    answer.called /\ answer.success =>
        /\ window.datasets = answer.datasets
        /\ window.dataset_combo = answer.datasets

\* the same of the answers that hold a dataset
C30_UnlessEmpty ==
    answer.called /\ answer.success /\ answer.datasets # <<>> =>
        /\ window.datasets = answer.datasets
        /\ window.dataset_combo = answer.datasets

====
